---------------------------- MODULE Spec2Model ----------------------------
(***************************************************************************)
(* A model of the backtesting, scanning and data update scripts of the    *)
(* repository:                                                             *)
(*   backtest_analysis.py        (stop-loss / take-profit exit)            *)
(*   backtest_analysis_rsi40.py  (fixed-horizon exit)                      *)
(*   ma_volume_strategy_backtester.py  (MA20 trend-break exit, pool)       *)
(*   backtest_screener.py        (fixed-horizon back-test of the modes)    *)
(*   update.py                   (download and append of the stock files,  *)
(*                                the progress of main over a day's runs)  *)
(*   stock_analyzer.V4.0.py      (strategy priority, ranking, indicators)  *)
(*   the scanners bottom_double_bullish, lower_shadow_reversal,            *)
(*   volume_bottom, shovel_bottom, rising_three_methods, stock_reversal    *)
(* Prices and rates are integers; a float that is not-a-number is the      *)
(* value NaN, and every comparison with NaN is false, as in pandas/numpy.  *)
(* Percent returns are (close_exit - close_entry) * 100 / close_entry; the *)
(* bars of the model are priced so that this division is exact.            *)
(***************************************************************************)
EXTENDS Integers, Sequences, FiniteSets, TLC

VARIABLES
    script,                  \* which script runs: "sltp" or "rsi40"
    files,                   \* the CSV files of stock_data: file id -> bars
    todo,                    \* files the glob loop has not reached yet
    all_signals_data,        \* the accumulator: one list of signals per file
    total_processed_stocks,  \* counter of files with the required columns
    df_temp,                 \* the computed columns of the file read last
    report,                  \* <<>> or <<the statistics printed>>
    output,                  \* <<>> or <<the rows written to the report CSV>>
    pc,                      \* "idle" | "loop" | "done"
    \* a call of calculate_return (ma_volume_strategy_backtester.py)
    data,                    \* the bars of the stock, ascending by Date
    buy_date,                \* the test date handed in
    ret_tuple,               \* <<>> (None) or <<the tuple returned>>
    cr_pc,                   \* "idle" | "call" | "returned"
    \* a run of one of the scanner scripts over one stock file
    scanner,                 \* "none" | "bottom_double_bullish" |
                             \* "lower_shadow" | "volume_bottom"
    scan_df,                 \* the rows of the stock's CSV file
    scan_cols,               \* the derived columns of the last run, per row
    scan_result,             \* <<>> (None, []) or <<the signal returned>>
    scan_pc,                 \* "idle" | "call" | "returned"
    \* a run of run_backtest (backtest_screener.py)
    all_files,               \* the stock files in glob order: readable flag and rows
    date_list,               \* the screening dates, weekdays of the back-test range
    screen_idx,              \* position of screen_date in date_list
    file_idx,                \* position of file_path in all_files
    prices,                  \* <<>> or <<what get_future_price returned last>>
    daily_trades,            \* the trades of the current screening date
    all_results,             \* the trades of the dates finished
    summary,                 \* <<>> or <<the summary printed and saved>>
    bs_pc,                   \* "idle" | "files" | "done" | "raised"
    \* a run of main_backtester (ma_volume_strategy_backtester.py)
    mb_files,                \* all_files: readable flag and rows of each stock file
    test_dates,              \* the back-test dates, one per calendar day
    future_state,            \* per file: "pending" | "running" | "finished"
    future_result,           \* per file: what backtest_single_stock returned
    completed,               \* the futures as_completed has yielded, in order
    mb_all_results,          \* all_results of main_backtester
    processed_count,         \* the futures counted by the coordinating thread
    mb_report,               \* <<>> or <<the statistics written>>
    mb_pc,                   \* "idle" | "pool" | "done"
    \* runs of main of update.py
    disk,                    \* stock code -> <<>> (no file) or <<the dates of the file's rows>>
    today,                   \* the day of the run
    current_batch,           \* the stock codes of the rows of the batch
    task,                    \* per submitted task: pc, existing_df, start_date, result
    upd_completed,           \* the futures as_completed has yielded, in order
    success_count,           \* tasks counted as updated or up to date
    fail_count,              \* tasks counted as failed
    records_updated,         \* rows reported written by the tasks counted
    upd_pc,                  \* "idle" | "pool" | "done"
    \* a run of stock_analyzer.V4.0.py
    sa_files,                \* all_files: per stock file, whether it is analysed, the strategies met, the latest indicators
    sa_idx,                  \* position of stock_file_name in all_files
    sa_results,              \* results: the rows appended so far
    sa_saved,                \* <<>> or <<the frame save_results wrote>>
    sa_high,                 \* the High column handed to calculate_all_indicators
    sa_max_high,             \* <<>> or <<the Max_High_Prev_20 column>>
    sa_pc,                   \* "idle" | "loop" | "analysed" | "saved" | "call" | "returned"
    \* the runs of main of update.py over the day: progress and exit codes
    progress_file,           \* PROGRESS_FILE: <<>> (absent) or <<the index written>>
    last_run_date_file,      \* LAST_RUN_DATE_FILE: <<>> (absent) or <<the date written>>
    today_str,               \* the day of the run
    total_stocks,            \* the length of the filtered stock list
    start_index,             \* start_index of the run
    END_INDEX,               \* END_INDEX of the run
    failed_stocks,           \* the indices of the batch whose future gave a failure or raised
    exit_code,               \* <<>> or <<the exit status of the last run>>
    runs_today,              \* the runs of today_str so far: range submitted, failures, exit status
    job_pc                   \* "idle" | "pool" | "counted" | "exited"

varsA == <<script, files, todo, all_signals_data, total_processed_stocks,
           df_temp, report, output, pc>>

varsCR == <<data, buy_date, ret_tuple, cr_pc>>

varsScan == <<scanner, scan_df, scan_cols, scan_result, scan_pc>>

varsBS ==
    <<all_files, date_list, screen_idx, file_idx,
      prices, daily_trades, all_results, summary,
      bs_pc>>

varsMB ==
    <<mb_files, test_dates, future_state, future_result,
      completed, mb_all_results, processed_count, mb_report,
      mb_pc>>

varsUpd ==
    <<disk, today, current_batch, task,
      upd_completed, success_count, fail_count, records_updated,
      upd_pc>>

varsSA ==
    <<sa_files, sa_idx, sa_results, sa_saved,
      sa_high, sa_max_high, sa_pc>>

varsJob ==
    <<progress_file, last_run_date_file, today_str, total_stocks,
      start_index, END_INDEX, failed_stocks, exit_code,
      runs_today, job_pc>>

vars == <<varsA, varsCR, varsScan, varsBS, varsMB, varsUpd, varsSA, varsJob>>

\* neither backtest_analysis script runs
IdleA ==
    /\ script = "none"
    /\ files = <<>>
    /\ todo = {}
    /\ all_signals_data = <<>>
    /\ total_processed_stocks = 0
    /\ df_temp = <<>>
    /\ report = <<>>
    /\ output = <<>>
    /\ pc = "idle"

\* no call of calculate_return is under way
IdleCR ==
    /\ data = <<>>
    /\ buy_date = 0
    /\ ret_tuple = <<>>
    /\ cr_pc = "idle"

\* no scanner script runs
IdleScan ==
    /\ scanner = "none"
    /\ scan_df = <<>>
    /\ scan_cols = <<>>
    /\ scan_result = <<>>
    /\ scan_pc = "idle"

\* run_backtest does not run
IdleBS ==
    /\ all_files = <<>>
    /\ date_list = <<>>
    /\ screen_idx = 0
    /\ file_idx = 0
    /\ prices = <<>>
    /\ daily_trades = <<>>
    /\ all_results = <<>>
    /\ summary = <<>>
    /\ bs_pc = "idle"

\* main_backtester does not run
IdleMB ==
    /\ mb_files = <<>>
    /\ test_dates = <<>>
    /\ future_state = <<>>
    /\ future_result = <<>>
    /\ completed = <<>>
    /\ mb_all_results = <<>>
    /\ processed_count = 0
    /\ mb_report = <<>>
    /\ mb_pc = "idle"

\* update.py does not run
IdleUpd ==
    /\ disk = <<>>
    /\ today = 0
    /\ current_batch = <<>>
    /\ task = <<>>
    /\ upd_completed = <<>>
    /\ success_count = 0
    /\ fail_count = 0
    /\ records_updated = 0
    /\ upd_pc = "idle"

\* stock_analyzer is not running
IdleSA ==
    /\ sa_files = <<>>
    /\ sa_idx = 0
    /\ sa_results = <<>>
    /\ sa_saved = <<>>
    /\ sa_high = <<>>
    /\ sa_max_high = <<>>
    /\ sa_pc = "idle"

\* main of update.py has not been started by the workflow
IdleJob ==
    /\ progress_file = <<>>
    /\ last_run_date_file = <<>>
    /\ today_str = 0
    /\ total_stocks = 0
    /\ start_index = 0
    /\ END_INDEX = 0
    /\ failed_stocks = {}
    /\ exit_code = <<>>
    /\ runs_today = <<>>
    /\ job_pc = "idle"

\* the variables a subsystem leaves alone
notA == <<varsCR, varsScan, varsBS, varsMB, varsUpd, varsSA, varsJob>>
notCR == <<varsA, varsScan, varsBS, varsMB, varsUpd, varsSA, varsJob>>
notScan == <<varsA, varsCR, varsBS, varsMB, varsUpd, varsSA, varsJob>>
notBS == <<varsA, varsCR, varsScan, varsMB, varsUpd, varsSA, varsJob>>
notMB == <<varsA, varsCR, varsScan, varsBS, varsUpd, varsSA, varsJob>>
notUpd == <<varsA, varsCR, varsScan, varsBS, varsMB, varsSA, varsJob>>
notSA == <<varsA, varsCR, varsScan, varsBS, varsMB, varsUpd, varsJob>>
notJob == <<varsA, varsCR, varsScan, varsBS, varsMB, varsUpd, varsSA>>

\* only the named subsystem runs
OnlyA == IdleCR /\ IdleScan /\ IdleBS /\ IdleMB /\ IdleUpd /\ IdleSA /\ IdleJob
OnlyCR == IdleA /\ IdleScan /\ IdleBS /\ IdleMB /\ IdleUpd /\ IdleSA /\ IdleJob
OnlyScan == IdleA /\ IdleCR /\ IdleBS /\ IdleMB /\ IdleUpd /\ IdleSA /\ IdleJob
OnlyBS == IdleA /\ IdleCR /\ IdleScan /\ IdleMB /\ IdleUpd /\ IdleSA /\ IdleJob
OnlyMB == IdleA /\ IdleCR /\ IdleScan /\ IdleBS /\ IdleUpd /\ IdleSA /\ IdleJob
OnlyUpd == IdleA /\ IdleCR /\ IdleScan /\ IdleBS /\ IdleMB /\ IdleSA /\ IdleJob
OnlySA == IdleA /\ IdleCR /\ IdleScan /\ IdleBS /\ IdleMB /\ IdleUpd /\ IdleJob
OnlyJob == IdleA /\ IdleCR /\ IdleScan /\ IdleBS /\ IdleMB /\ IdleUpd /\ IdleSA

---------------------------------------------------------------------------
(* Floats with NaN *)

NaN == -999999

notna(x) == x # NaN

Lt(a, b) == notna(a) /\ notna(b) /\ a < b
Le(a, b) == notna(a) /\ notna(b) /\ a <= b
Gt(a, b) == notna(a) /\ notna(b) /\ a > b
Ge(a, b) == notna(a) /\ notna(b) /\ a >= b

\* (a / b - 1) * 100
PctChange(a, b) ==
    IF notna(a) /\ notna(b) /\ b # 0 THEN ((a - b) * 100) \div b ELSE NaN

SeqMax(s) == CHOOSE m \in {s[k] : k \in DOMAIN s} : \A k \in DOMAIN s : s[k] <= m
SeqMin(s) == CHOOSE m \in {s[k] : k \in DOMAIN s} : \A k \in DOMAIN s : m <= s[k]

RECURSIVE SeqSum(_)
SeqSum(s) == IF s = <<>> THEN 0 ELSE Head(s) + SeqSum(Tail(s))

\* variant: only the list appended last is kept
Concat_last(ss) == IF ss = <<>> THEN <<>> ELSE ss[Len(ss)]

RECURSIVE Concat(_)
Concat(ss) == IF ss = <<>> THEN <<>> ELSE Head(ss) \o Concat(Tail(ss))

\* A rational number num/den; 1/0 is +infinity.
Rat(n, d) == [num |-> n, den |-> d]
Inf == Rat(1, 0)

---------------------------------------------------------------------------
(* Configuration of the two scripts *)

HOLDING_DAYS == 5
STOP_LOSS_RATE == -5
TAKE_PROFIT_RATE == 15
RSI_THRESHOLD == 25
RSI_THRESHOLD_RSI40 == 35

---------------------------------------------------------------------------
(* pandas column operations on a frame df (a sequence of rows) *)

\* Series.shift(k): row i gets the value of row i - k, NaN outside the frame
Shift(col, k, i) ==
    IF i - k \in 1..Len(col) THEN col[i - k] ELSE NaN

\* Series.rolling(window=w): the window ending at row j, or <<>> when it is
\* not full (min_periods = w) or holds a NaN
RollingWindow(col, w, j) ==
    IF j \in w..Len(col) /\ \A k \in (j - w + 1)..j : notna(col[k])
    THEN [k \in 1..w |-> col[j - w + k]]
    ELSE <<>>

RollingMax(col, w, j) ==
    LET win == RollingWindow(col, w, j)
    IN IF win = <<>> THEN NaN ELSE SeqMax(win)

RollingMin(col, w, j) ==
    LET win == RollingWindow(col, w, j)
    IN IF win = <<>> THEN NaN ELSE SeqMin(win)

Close_Price(df) == [i \in DOMAIN df |-> df[i].Close_Price]
High_Price(df) == [i \in DOMAIN df |-> df[i].High_Price]
Low_Price(df) == [i \in DOMAIN df |-> df[i].Low_Price]
Calculated_MACD_Histo(df) == [i \in DOMAIN df |-> df[i].Calculated_MACD_Histo]

\* 3 * K - 2 * D
Calculated_KDJ_J(r) ==
    IF notna(r.Calculated_KDJ_K) /\ notna(r.Calculated_KDJ_D)
    THEN 3 * r.Calculated_KDJ_K - 2 * r.Calculated_KDJ_D
    ELSE NaN

\* variant: the exit close taken one bar early
Future_Close_one_early(df, i) == Shift(Close_Price(df), -(HOLDING_DAYS - 1), i)

\* Close_Price.shift(-HOLDING_DAYS)
Future_Close(df, i) == Shift(Close_Price(df), -HOLDING_DAYS, i)

\* High_Price.rolling(HOLDING_DAYS).max().shift(-HOLDING_DAYS + 1)
Future_High(df, i) == RollingMax(High_Price(df), HOLDING_DAYS, i + HOLDING_DAYS - 1)

\* Low_Price.rolling(HOLDING_DAYS).min().shift(-HOLDING_DAYS + 1)
Future_Low(df, i) == RollingMin(Low_Price(df), HOLDING_DAYS, i + HOLDING_DAYS - 1)

---------------------------------------------------------------------------
(* backtest_analysis.py: calculate_dynamic_return *)

\* future_low <= buy_price * (1 + sl_rate / 100)
StopHit(buy_price, future_low, sl_rate) ==
    notna(buy_price) /\ notna(future_low)
    /\ future_low * 100 <= buy_price * (100 + sl_rate)

\* future_high >= buy_price * (1 + tp_rate / 100)
TargetHit(buy_price, future_high, tp_rate) ==
    notna(buy_price) /\ notna(future_high)
    /\ future_high * 100 >= buy_price * (100 + tp_rate)

\* variant: the take-profit test placed before the stop-loss test
calculate_dynamic_return_tp_first(row, sl_rate, tp_rate) ==
    IF TargetHit(row.Close_Price, row.Future_High, tp_rate) THEN tp_rate
    ELSE IF StopHit(row.Close_Price, row.Future_Low, sl_rate) THEN sl_rate
    ELSE IF notna(row.Future_Close) THEN PctChange(row.Future_Close, row.Close_Price)
    ELSE NaN

calculate_dynamic_return(row, sl_rate, tp_rate) ==
    IF StopHit(row.Close_Price, row.Future_Low, sl_rate) THEN sl_rate
    ELSE IF TargetHit(row.Close_Price, row.Future_High, tp_rate) THEN tp_rate
    ELSE IF notna(row.Future_Close) THEN PctChange(row.Future_Close, row.Close_Price)
    ELSE NaN

\* the row of df_temp that calculate_dynamic_return is applied to
FutureRow(df, i) ==
    [Close_Price  |-> df[i].Close_Price,
     Future_High  |-> Future_High(df, i),
     Future_Low   |-> Future_Low(df, i),
     Future_Close |-> Future_Close(df, i)]

\* the column Return_5D of df_temp, per script
Return_5D(s, df, i) ==
    IF s = "sltp"
    THEN calculate_dynamic_return(FutureRow(df, i), STOP_LOSS_RATE, TAKE_PROFIT_RATE)
    ELSE PctChange(Future_Close(df, i), df[i].Close_Price)

---------------------------------------------------------------------------
(* The signal filter of both scripts *)

Prev_MACD_Histo(df, i) == Shift(Calculated_MACD_Histo(df), 1, i)

final_filter(s, df, i) ==
    LET r == df[i]
        condition_ma == Gt(r.Close_Price, r.Calculated_MA200)
        condition_rsi ==
            Lt(r.Calculated_RSI,
               IF s = "sltp" THEN RSI_THRESHOLD ELSE RSI_THRESHOLD_RSI40)
        condition_macd_rising == Gt(r.Calculated_MACD_Histo, Prev_MACD_Histo(df, i))
        condition_macd_negative == Lt(Prev_MACD_Histo(df, i), 0)
        condition_kdj == Gt(Calculated_KDJ_J(r), r.Calculated_KDJ_K)
    IN condition_ma /\ condition_rsi /\ condition_macd_rising
       /\ (s = "sltp" => condition_macd_negative) /\ condition_kdj

\* variant: the dropna on Return_5D left out
SignalRows_keep_nan(s, df) ==
    {i \in 1..Len(df) : final_filter(s, df, i)}

\* filtered_df_temp after dropna(subset=['Return_5D']): the signals of a file
SignalRows(s, df) ==
    {i \in 1..Len(df) : final_filter(s, df, i) /\ notna(Return_5D(s, df, i))}

RECURSIVE SetToSeq(_)
SetToSeq(S) ==
    IF S = {} THEN <<>>
    ELSE LET m == CHOOSE x \in S : \A y \in S : x <= y
         IN <<m>> \o SetToSeq(S \ {m})

filtered_df(s, f, df) ==
    LET rows == SetToSeq(SignalRows(s, df))
    IN [k \in 1..Len(rows) |->
           [StockCode |-> f, row |-> rows[k],
            Return_5D |-> Return_5D(s, df, rows[k])]]

---------------------------------------------------------------------------
(* Step 4 of both scripts: the statistics of the concatenated signals *)

IsWin(sig) == Gt(sig.Return_5D, 0)
IsLoss(sig) == Le(sig.Return_5D, 0)
HasReturn(sig) == notna(sig.Return_5D)

Returns(df) == [k \in DOMAIN df |-> df[k].Return_5D]

\* Series.sum() / Series.mean() skip NaN
NotNaSeq(s) == SelectSeq(s, notna)
Mean(s) == Rat(SeqSum(NotNaSeq(s)), Len(NotNaSeq(s)))

\* variant: the ratio guarded by ">= 0"
ProfitLossRatio_ge(avg_win_return, avg_loss_return) ==
    IF avg_loss_return.num >= 0
    THEN Rat(avg_win_return.num * avg_loss_return.den,
             avg_win_return.den * avg_loss_return.num)
    ELSE Inf

\* "if avg_loss_return > 0: avg_win_return / avg_loss_return else: inf"
ProfitLossRatio(avg_win_return, avg_loss_return) ==
    IF avg_loss_return.num > 0
    THEN Rat(avg_win_return.num * avg_loss_return.den,
             avg_win_return.den * avg_loss_return.num)
    ELSE Inf

\* backtest_analysis.py
Stats_sltp(final_df) ==
    LET total_signals == Len(final_df)
        successful_signals == SelectSeq(final_df, IsWin)
        losing_signals == SelectSeq(final_df, IsLoss)
        successful_count == Len(successful_signals)
        losing_count == Len(losing_signals)
        avg_win_return ==
            IF successful_count > 0 THEN Mean(Returns(successful_signals)) ELSE Rat(0, 1)
        avg_loss ==
            IF losing_count > 0 THEN Mean(Returns(losing_signals)) ELSE Rat(0, 1)
        avg_loss_return == Rat(-avg_loss.num, avg_loss.den)
    IN [total_signals |-> total_signals,
        successful_count |-> successful_count,
        losing_count |-> losing_count,
        total_net_return |-> SeqSum(NotNaSeq(Returns(final_df))),
        success_rate |->
            IF total_signals > 0 THEN Rat(successful_count * 100, total_signals)
            ELSE Rat(0, 1),
        avg_win_return |-> avg_win_return,
        avg_loss_return |-> avg_loss_return,
        profit_loss_ratio |-> ProfitLossRatio(avg_win_return, avg_loss_return)]

\* backtest_analysis_rsi40.py
Stats_rsi40(concat_df) ==
    LET final_df == SelectSeq(concat_df, HasReturn)
        total_signals == Len(final_df)
        successful_signals == Len(SelectSeq(final_df, IsWin))
        gains == Returns(SelectSeq(final_df, IsWin))
        losses == Returns(SelectSeq(final_df, IsLoss))
    IN [total_signals |-> total_signals,
        successful_signals |-> successful_signals,
        success_rate |->
            IF total_signals > 0 THEN Rat(successful_signals * 100, total_signals)
            ELSE Rat(0, 1),
        avg_gain |-> IF gains # <<>> THEN Mean(gains) ELSE Rat(0, 1),
        avg_loss |-> IF losses # <<>> THEN Mean(losses) ELSE Rat(0, 1)]

Stats(s, concat_df) ==
    IF s = "sltp" THEN Stats_sltp(concat_df) ELSE Stats_rsi40(concat_df)

\* the rows of final_df written by to_csv
ReportRows(s, concat_df) ==
    LET final_df == IF s = "sltp" THEN concat_df ELSE SelectSeq(concat_df, HasReturn)
    IN {final_df[k] : k \in DOMAIN final_df}

---------------------------------------------------------------------------
(* The file loop and the report of run_backtest_analysis[_rsi40] *)

ComputedColumns(s, df) ==
    [i \in 1..Len(df) |->
        [Close_Price  |-> df[i].Close_Price,
         Future_High  |-> Future_High(df, i),
         Future_Low   |-> Future_Low(df, i),
         Future_Close |-> Future_Close(df, i),
         Return_5D    |-> Return_5D(s, df, i),
         final_filter |-> final_filter(s, df, i)]]

\* one iteration of "for file_path in glob.glob(...)"; glob's order is any
ProcessFile(f) ==
    /\ pc = "loop"
    /\ f \in todo
    /\ todo' = todo \ {f}
    /\ total_processed_stocks' = total_processed_stocks + 1
    /\ df_temp' = ComputedColumns(script, files[f])
    /\ all_signals_data' =
           IF filtered_df(script, f, files[f]) # <<>>
           THEN Append(all_signals_data, filtered_df(script, f, files[f]))
           ELSE all_signals_data
    /\ UNCHANGED <<script, files, report, output, pc>>
    /\ UNCHANGED notA

\* "if all_signals_data: ... else: print(no signal)"
Aggregate ==
    /\ pc = "loop"
    /\ todo = {}
    /\ pc' = "done"
    /\ IF all_signals_data # <<>>
       THEN /\ report' = <<Stats(script, Concat(all_signals_data))>>
            /\ output' = <<ReportRows(script, Concat(all_signals_data))>>
       ELSE /\ report' = <<>>
            /\ output' = <<>>
    /\ UNCHANGED <<script, files, todo, all_signals_data, total_processed_stocks,
                   df_temp>>
    /\ UNCHANGED notA

Next ==
    \/ \E f \in todo : ProcessFile(f)
    \/ Aggregate

---------------------------------------------------------------------------
(* Input bars.  The indicator columns are the values the ta package would  *)
(* hand back for the bar; the four kinds of bar are a quiet bar, a quiet   *)
(* bar on which the filter passes, a falling bar and a rising bar.         *)

Bar(c, h, l, rsi, macd) ==
    [Close_Price |-> c, High_Price |-> h, Low_Price |-> l,
     Calculated_RSI |-> rsi, Calculated_MA200 |-> 90,
     Calculated_MACD_Histo |-> macd,
     Calculated_KDJ_K |-> 10, Calculated_KDJ_D |-> 5]

BarQ == Bar(100, 102, 98, 50, -2)
BarS == Bar(100, 102, 98, 20, -1)
BarD == Bar(80, 100, 80, 50, -2)
BarU == Bar(125, 125, 100, 50, -2)

Alphabet == {BarQ, BarS, BarD, BarU}

MaxBars == 7

FileSpace == [1..MaxBars -> Alphabet]

InitRun(s, fs) ==
    /\ OnlyA
    /\ script = s
    /\ files = fs
    /\ todo = DOMAIN fs
    /\ all_signals_data = <<>>
    /\ total_processed_stocks = 0
    /\ df_temp = <<>>
    /\ report = <<>>
    /\ output = <<>>
    /\ pc = "loop"

\* one file of MaxBars bars, stop-loss / take-profit script
InitFile == \E df \in FileSpace : InitRun("sltp", <<df>>)

SpecFile == InitFile /\ [][Next]_vars

\* one file of MaxBars bars, fixed-horizon script
InitRsi40 == \E df \in FileSpace : InitRun("rsi40", <<df>>)

SpecRsi40 == InitRsi40 /\ [][Next]_vars

\* a directory of up to MaxFiles files, read in any order, either script
FileShort == <<BarQ, BarQ, BarQ>>
FileWin == <<BarQ, BarS, BarQ, BarQ, BarQ, BarQ, BarU>>
FileStop == <<BarQ, BarS, BarQ, BarD, BarQ, BarQ, BarQ>>
FileEven == <<BarQ, BarS, BarQ, BarQ, BarQ, BarQ, BarQ>>
FileLate == <<BarQ, BarQ, BarQ, BarQ, BarS, BarQ, BarQ>>
FileTarget == <<BarQ, BarS, BarU, BarQ, BarQ, BarQ, BarQ>>
FileTwo == <<BarQ, BarS, BarQ, BarS, BarQ, BarQ, BarU, BarQ, BarD>>

Fixtures == {FileShort, FileWin, FileStop, FileEven, FileLate, FileTarget, FileTwo}

MaxFiles == 3

InitBatch ==
    \E s \in {"sltp", "rsi40"} : \E n \in 0..MaxFiles : \E fs \in [1..n -> Fixtures] :
        InitRun(s, fs)

SpecBatch == InitBatch /\ [][Next]_vars

---------------------------------------------------------------------------
(* ma_volume_strategy_backtester.py: calculate_return.  A bar is a record  *)
(* [Date, Close]; a Date is a day number, buy_date + timedelta(days = n)   *)
(* is Date + n.  The return (sell_price - buy_price) / buy_price is kept   *)
(* as the rational Rat(sell_price - buy_price, buy_price).                 *)

HOLD_DAYS == 30
STOP_LOSS_MA == 20

SetMin(S) == CHOOSE x \in S : \A y \in S : x <= y
SetMax(S) == CHOOSE x \in S : \A y \in S : y <= x

\* DataFrame.sort_values(by='Date')
SortByDate(rows) ==
    LET rank == [k \in DOMAIN rows |->
                    Cardinality({j \in DOMAIN rows :
                                    \/ rows[j].Date < rows[k].Date
                                    \/ (rows[j].Date = rows[k].Date /\ j <= k)})]
    IN IF \A i \in 1..(Len(rows) - 1) : rows[i].Date <= rows[i + 1].Date
       THEN rows
       ELSE [p \in DOMAIN rows |-> rows[CHOOSE k \in DOMAIN rows : rank[k] = p]]

\* Series.rolling(window=w).mean(), kept as the sum of the window (w times
\* the mean); NaN while the window is not full
RollingSum(col, w, j) ==
    LET win == RollingWindow(col, w, j)
    IN IF win = <<>> THEN NaN ELSE SeqSum(win)

\* Close < rolling mean, the mean given as the sum of its w values
BelowMean(close, sum, w) == notna(close) /\ notna(sum) /\ close * w < sum

\* variant: the last row of stop_loss_trigger taken
stop_loss_day_last(stop_loss_trigger) == SetMax(stop_loss_trigger)

\* stop_loss_trigger.iloc[0]
stop_loss_day(stop_loss_trigger) == SetMin(stop_loss_trigger)

\* variant: None when the bars end before sell_date_target
calculate_return_needs_horizon(d, bd, hold_days, stop_loss_ma) ==
    LET buy_data == {i \in DOMAIN d : d[i].Date = bd}
        next_days == {i \in DOMAIN d : d[i].Date > bd}
    IN IF buy_data = {} /\ next_days = {} THEN <<>>
       ELSE
         LET buy_idx ==
                 IF buy_data # {} THEN SetMin(buy_data)
                 ELSE SetMin({i \in next_days :
                                 \A j \in next_days : d[i].Date <= d[j].Date})
             buy_price == d[buy_idx].Close
             buy_date_actual == d[buy_idx].Date
             sell_date_target == buy_date_actual + hold_days
             InHorizon(r) == r.Date <= sell_date_target
             full_data_for_ma == SortByDate(SelectSeq(d, InHorizon))
             closes == [j \in DOMAIN full_data_for_ma |-> full_data_for_ma[j].Close]
             future == {j \in DOMAIN full_data_for_ma :
                           full_data_for_ma[j].Date > buy_date_actual}
             stop_loss_trigger ==
                 {j \in future :
                     BelowMean(closes[j], RollingSum(closes, stop_loss_ma, j),
                               stop_loss_ma)}
         IN IF Len(full_data_for_ma) < stop_loss_ma THEN <<>>
            ELSE IF future = {} THEN <<>>
            ELSE IF stop_loss_trigger # {}
            THEN LET j == stop_loss_day(stop_loss_trigger)
                 IN <<[ret |-> Rat(closes[j] - buy_price, buy_price),
                       sell_date |-> full_data_for_ma[j].Date]>>
            ELSE IF \A i \in DOMAIN d : d[i].Date < sell_date_target THEN <<>>
            ELSE LET j == SetMax(future)
                 IN <<[ret |-> Rat(closes[j] - buy_price, buy_price),
                       sell_date |-> sell_date_target]>>

calculate_return(d, bd, hold_days, stop_loss_ma) ==
    LET buy_data == {i \in DOMAIN d : d[i].Date = bd}
        next_days == {i \in DOMAIN d : d[i].Date > bd}
    IN IF buy_data = {} /\ next_days = {} THEN <<>>
       ELSE
         LET buy_idx ==
                 IF buy_data # {} THEN SetMin(buy_data)
                 ELSE SetMin({i \in next_days :
                                 \A j \in next_days : d[i].Date <= d[j].Date})
             buy_price == d[buy_idx].Close
             buy_date_actual == d[buy_idx].Date
             sell_date_target == buy_date_actual + hold_days
             InHorizon(r) == r.Date <= sell_date_target
             full_data_for_ma == SortByDate(SelectSeq(d, InHorizon))
             closes == [j \in DOMAIN full_data_for_ma |-> full_data_for_ma[j].Close]
             future == {j \in DOMAIN full_data_for_ma :
                           full_data_for_ma[j].Date > buy_date_actual}
             stop_loss_trigger ==
                 {j \in future :
                     BelowMean(closes[j], RollingSum(closes, stop_loss_ma, j),
                               stop_loss_ma)}
         IN IF Len(full_data_for_ma) < stop_loss_ma THEN <<>>
            ELSE IF future = {} THEN <<>>
            ELSE IF stop_loss_trigger # {}
            THEN LET j == stop_loss_day(stop_loss_trigger)
                 IN <<[ret |-> Rat(closes[j] - buy_price, buy_price),
                       sell_date |-> full_data_for_ma[j].Date]>>
            ELSE LET j == SetMax(future)
                 IN <<[ret |-> Rat(closes[j] - buy_price, buy_price),
                       sell_date |-> sell_date_target]>>

\* ret_tuple = calculate_return(data, test_date, HOLD_DAYS)
CallCalculateReturn ==
    /\ cr_pc = "call"
    /\ ret_tuple' = calculate_return(data, buy_date, HOLD_DAYS, STOP_LOSS_MA)
    /\ cr_pc' = "returned"
    /\ UNCHANGED <<data, buy_date>>
    /\ UNCHANGED notCR

\* Input bars: a flat history of pre closes of 100 on the days 1..pre, then
\* up to MaxTail bars gap days apart with closes of 90, 100 or 110.
History(pre) == [i \in 1..pre |-> [Date |-> i, Close |-> 100]]

TailBars(pre, gap, tail) ==
    [k \in DOMAIN tail |-> [Date |-> pre + k * gap, Close |-> tail[k]]]

MaxTail == 4

InitCalcReturn ==
    \E pre \in {18, 19, 22} : \E gap \in {1, 10, 16} : \E n \in 1..MaxTail :
        \E tail \in [1..n -> {90, 100, 110}] :
            \E bd \in {pre + gap - 1, pre + gap, pre + n * gap, pre + n * gap + 1} :
                /\ OnlyCR
                /\ data = History(pre) \o TailBars(pre, gap, tail)
                /\ buy_date = bd
                /\ ret_tuple = <<>>
                /\ cr_pc = "call"

NextCalcReturn == CallCalculateReturn

SpecCalcReturn == InitCalcReturn /\ [][NextCalcReturn]_vars

\* both exit policies: a run of backtest_analysis.py over one file, or a call
\* of calculate_return
InitExit == InitFile \/ InitCalcReturn

NextExit == Next \/ NextCalcReturn

SpecExit == InitExit /\ [][NextExit]_vars

---------------------------------------------------------------------------
(* Claims *)

\* C1: in calculate_dynamic_return, whenever the lowest low of the holding
\* window is at or below buy_price * (1 + sl_rate / 100) the result is
\* sl_rate, also when the highest high of the window reaches the take-profit
\* price; tp_rate is the result only when the stop price is not breached.
C1_WindowLowBreachesStop(r) ==
    notna(r.Close_Price) /\ notna(r.Future_Low)
    /\ r.Future_Low * 100 <= r.Close_Price * (100 + STOP_LOSS_RATE)

C1_WindowHighReachesTarget(r) ==
    notna(r.Close_Price) /\ notna(r.Future_High)
    /\ r.Future_High * 100 >= r.Close_Price * (100 + TAKE_PROFIT_RATE)

C1_StopLossPriority ==
    script = "sltp" =>
        \A i \in DOMAIN df_temp :
            /\ C1_WindowLowBreachesStop(df_temp[i])
                   => df_temp[i].Return_5D = STOP_LOSS_RATE
            /\ df_temp[i].Return_5D = TAKE_PROFIT_RATE
                   => ~C1_WindowLowBreachesStop(df_temp[i])

\* a window whose low breaches the stop and whose high reaches the target
C1_Witness ==
    /\ script = "sltp"
    /\ \E i \in DOMAIN df_temp :
           /\ C1_WindowLowBreachesStop(df_temp[i])
           /\ C1_WindowHighReachesTarget(df_temp[i])
           /\ df_temp[i].Return_5D = STOP_LOSS_RATE
    /\ \E i \in DOMAIN df_temp :
           /\ C1_WindowHighReachesTarget(df_temp[i])
           /\ df_temp[i].Return_5D = TAKE_PROFIT_RATE

\* C2: in run_backtest_analysis_rsi40 the return of a signal at bar i is
\* (close[i+5] / close[i] - 1) * 100, the close exactly 5 bars after the
\* entry bar; a signal with fewer than 5 bars after it has no return and is
\* removed before any statistic is computed.
C2_SignalBars(f) ==
    {i \in 1..Len(files[f]) : final_filter("rsi40", files[f], i)}

C2_Resolved(f) ==
    {i \in C2_SignalBars(f) : i + 5 <= Len(files[f])}

C2_FixedHorizonReturn ==
    (script = "rsi40" /\ pc = "done") =>
        /\ \A k \in DOMAIN all_signals_data : \A n \in DOMAIN all_signals_data[k] :
               LET sig == all_signals_data[k][n]
                   df == files[sig.StockCode]
               IN /\ sig.row \in C2_Resolved(sig.StockCode)
                  /\ sig.Return_5D * df[sig.row].Close_Price
                         = (df[sig.row + 5].Close_Price - df[sig.row].Close_Price) * 100
        /\ \A f \in DOMAIN files : \A i \in C2_Resolved(f) :
               \E k \in DOMAIN all_signals_data : \E n \in DOMAIN all_signals_data[k] :
                   /\ all_signals_data[k][n].StockCode = f
                   /\ all_signals_data[k][n].row = i
        /\ LET n_resolved == SeqSum([f \in DOMAIN files |-> Cardinality(C2_Resolved(f))])
           IN IF n_resolved = 0 THEN report = <<>>
              ELSE /\ report # <<>>
                   /\ report[1].total_signals = n_resolved
                   /\ Cardinality(output[1]) = n_resolved

\* a file with one signal that has its 5 bars and one that has not
C2_Witness ==
    /\ script = "rsi40"
    /\ pc = "done"
    /\ report # <<>>
    /\ report[1].total_signals = 1
    /\ report[1].successful_signals = 1
    /\ \E f \in DOMAIN files : \E i \in C2_SignalBars(f) : i + 5 > Len(files[f])

\* C7: in the aggregation of run_backtest_analysis every aggregated trade is
\* in exactly one of winners (Return_5D > 0) and losers (Return_5D <= 0), so
\* successful_count + losing_count = total_signals, and the win rate is
\* 100 * successful_count / total_signals and lies in [0, 100].
C7_PartitionAndWinRate ==
    (script = "sltp" /\ pc = "done" /\ report # <<>>) =>
        LET r == report[1]
            rows == output[1]
        IN /\ \A sig \in rows : Gt(sig.Return_5D, 0) # Le(sig.Return_5D, 0)
           /\ r.total_signals = Cardinality(rows)
           /\ r.successful_count = Cardinality({sig \in rows : Gt(sig.Return_5D, 0)})
           /\ r.losing_count = Cardinality({sig \in rows : Le(sig.Return_5D, 0)})
           /\ r.successful_count + r.losing_count = r.total_signals
           /\ r.success_rate.den > 0
           /\ r.success_rate.num * r.total_signals
                  = 100 * r.successful_count * r.success_rate.den
           /\ 0 <= r.success_rate.num
           /\ r.success_rate.num <= 100 * r.success_rate.den

\* a report over winners and losers alike
C7_Witness ==
    /\ script = "sltp"
    /\ pc = "done"
    /\ report # <<>>
    /\ report[1].successful_count > 0
    /\ report[1].losing_count > 0
    /\ report[1].total_signals = 3

C8_SumLosses ==
    SeqSum(NotNaSeq(Returns(SelectSeq(Concat(all_signals_data), IsLoss))))

C8_SumWins ==
    SeqSum(NotNaSeq(Returns(SelectSeq(Concat(all_signals_data), IsWin))))

\* C8 as stated: the profit/loss ratio of run_backtest_analysis is +infinity
\* exactly when there is no losing trade (Return_5D <= 0); with at least one
\* losing trade it is the finite value avg_win / |avg_loss|.
C8_InfIffNoLosers ==
    (script = "sltp" /\ pc = "done" /\ report # <<>>) =>
        LET r == report[1]
        IN /\ (r.profit_loss_ratio = Inf) <=> (r.losing_count = 0)
           /\ r.losing_count > 0 => r.profit_loss_ratio.den # 0

\* C8 amended: the ratio is +infinity exactly when no trade has
\* Return_5D < 0 (no losing trade, or every losing trade is break-even);
\* otherwise it is the finite value avg_win / |avg_loss|.
C8_InfIffNoNegativeReturn ==
    (script = "sltp" /\ pc = "done" /\ report # <<>>) =>
        LET r == report[1]
            W == IF r.successful_count > 0 THEN r.successful_count ELSE 1
        IN /\ (r.profit_loss_ratio = Inf) <=> (C8_SumLosses = 0)
           /\ C8_SumLosses < 0 =>
                  /\ r.profit_loss_ratio.den # 0
                  /\ r.profit_loss_ratio.num * (W * (-C8_SumLosses))
                         = r.profit_loss_ratio.den * (C8_SumWins * r.losing_count)

\* losers that are all break-even, and losers with a real loss
C8_WitnessBreakEven ==
    /\ script = "sltp"
    /\ pc = "done"
    /\ report # <<>>
    /\ report[1].losing_count > 0
    /\ report[1].successful_count > 0
    /\ C8_SumLosses = 0
    /\ report[1].profit_loss_ratio = Inf

\* C9: the statistics are the same whatever the order in which the files'
\* signal lists are appended to the accumulator.
C9_CanonicalSignals ==
    Concat([f \in DOMAIN files |-> filtered_df(script, f, files[f])])

C10_EmptyRunReports ==
    (pc = "done" /\ all_signals_data = <<>>) =>
        /\ output = <<{}>>
        /\ report # <<>>
        /\ report[1].total_signals = 0
        /\ report[1].success_rate.num = 0

\* the bar calculate_return enters on: the bar dated buy_date, else the
\* first later bar; 0 when there is none
EntryBar ==
    IF \E i \in DOMAIN data : data[i].Date = buy_date
    THEN SetMin({i \in DOMAIN data : data[i].Date = buy_date})
    ELSE IF \E i \in DOMAIN data : data[i].Date > buy_date
    THEN SetMin({i \in DOMAIN data : data[i].Date > buy_date})
    ELSE 0

\* the bars after the entry bar and inside the holding window
HoldingWindow ==
    IF EntryBar = 0 THEN {}
    ELSE {j \in DOMAIN data :
             j > EntryBar /\ data[j].Date <= data[EntryBar].Date + 30}

\* the bars of the window that close below the mean of their own close and
\* the 19 closes before it
TrendBreaks ==
    {j \in HoldingWindow :
        /\ j >= 20
        /\ 20 * data[j].Close < SeqSum([k \in 1..20 |-> data[j - 20 + k].Close])}

\* C4: if a bar after the entry bar and inside the holding window closes
\* below its own trailing 20-bar mean of closes, calculate_return exits at
\* the close of the first such bar in date order, whatever the later bars
\* hold; only when there is no such bar is the last bar of the window used.
C4_FirstTrendBreakExit ==
    cr_pc = "returned" =>
        /\ TrendBreaks # {} =>
               /\ ret_tuple # <<>>
               /\ \E j \in TrendBreaks :
                      /\ \A k \in TrendBreaks : j <= k
                      /\ ret_tuple[1].sell_date = data[j].Date
                      /\ ret_tuple[1].ret
                             = Rat(data[j].Close - data[EntryBar].Close,
                                   data[EntryBar].Close)
        /\ (TrendBreaks = {} /\ ret_tuple # <<>>) =>
               /\ HoldingWindow # {}
               /\ \E j \in HoldingWindow :
                      /\ \A k \in HoldingWindow : k <= j
                      /\ ret_tuple[1].ret
                             = Rat(data[j].Close - data[EntryBar].Close,
                                   data[EntryBar].Close)

\* two trend breaks in the window with different closes, and a bar after the
\* window: the exit is the first break
C4_Witness ==
    /\ cr_pc = "returned"
    /\ \E j \in TrendBreaks : \E k \in TrendBreaks :
           /\ j < k
           /\ data[j].Close # data[k].Close
           /\ \A m \in TrendBreaks : j <= m
           /\ ret_tuple # <<>>
           /\ ret_tuple[1].sell_date = data[j].Date

\* a window without a trend break: the exit is its last bar
C4_WitnessNoBreak ==
    /\ cr_pc = "returned"
    /\ TrendBreaks = {}
    /\ Cardinality(HoldingWindow) >= 2
    /\ ret_tuple # <<>>
    /\ ret_tuple[1].ret.num > 0

\* a signal of file f at bar i whose holding horizon runs past the last bar
\* and whose window shows neither a stop nor a target
C3_UnresolvedSignal(f, i) ==
    /\ final_filter("sltp", files[f], i)
    /\ i + 5 > Len(files[f])
    /\ ~C1_WindowLowBreachesStop(FutureRow(files[f], i))
    /\ ~C1_WindowHighReachesTarget(FutureRow(files[f], i))

C3_Recorded(f, i) ==
    \E k \in DOMAIN all_signals_data : \E n \in DOMAIN all_signals_data[k] :
        /\ all_signals_data[k][n].StockCode = f
        /\ all_signals_data[k][n].row = i

\* the stop-loss / take-profit policy: an unresolved signal leaves no record
\* and is not counted
C3_DynamicReturnDropsUnresolved ==
    (script = "sltp" /\ pc = "done") =>
        /\ \A f \in DOMAIN files : \A i \in DOMAIN files[f] :
               C3_UnresolvedSignal(f, i) => ~C3_Recorded(f, i)
        /\ report # <<>> =>
               report[1].total_signals
                   = Cardinality({i \in DOMAIN files[1] :
                                     /\ final_filter("sltp", files[1], i)
                                     /\ ~C3_UnresolvedSignal(1, i)
                                     /\ notna(Future_Low(files[1], i))})

\* a call of calculate_return whose bars end before sell_date_target with no
\* trend break in between
C3_TrendExitUnresolved ==
    /\ cr_pc = "returned"
    /\ EntryBar # 0
    /\ TrendBreaks = {}
    /\ \A i \in DOMAIN data : data[i].Date < data[EntryBar].Date + 30

\* C3 as stated: under either exit policy a trade whose history ends before
\* the policy resolves produces no trade record.
C3_UnresolvedLeavesNoRecord ==
    /\ C3_DynamicReturnDropsUnresolved
    /\ C3_TrendExitUnresolved => ret_tuple = <<>>

\* C3 amended: calculate_dynamic_return leaves no record of such a trade;
\* calculate_return leaves none only when no bar follows the entry bar or
\* fewer than 20 bars exist, and otherwise records the trade closed at the
\* close of the last available bar.
C3_UnresolvedTrendExitClosesAtLastBar ==
    /\ C3_DynamicReturnDropsUnresolved
    /\ C3_TrendExitUnresolved =>
           /\ ret_tuple = <<>> <=> (HoldingWindow = {} \/ Len(data) < 20)
           /\ ret_tuple # <<>> =>
                  /\ ret_tuple[1].ret
                         = Rat(data[Len(data)].Close - data[EntryBar].Close,
                               data[EntryBar].Close)
                  /\ ret_tuple[1].sell_date = data[EntryBar].Date + 30

\* the bars end inside the holding window and the trade is recorded
C3_Witness ==
    /\ C3_TrendExitUnresolved
    /\ HoldingWindow # {}
    /\ ret_tuple # <<>>
    /\ ret_tuple[1].ret.num > 0
    /\ ret_tuple[1].sell_date > data[Len(data)].Date

---------------------------------------------------------------------------
(* bottom_double_bullish_scanner.py: check_bottom_double_bullish *)

MIN_CLOSE_PRICE == 5
MAX_CLOSE_PRICE == 20
\* 0.01
MIN_BULLISH_CHANGE == Rat(1, 100)
\* 1.2
MIN_VOL_MULTIPLIER == Rat(12, 10)

\* a float kept as a rational; 0/0 is NaN
RatNaN == Rat(0, 0)

\* x >= q for rationals with positive denominators, False on NaN
GeRat(x, q) == x # RatNaN /\ q # RatNaN /\ x.num * q.den >= q.num * x.den

\* a >= (sum / w) * q, the mean given as the sum of its w values
GeMeanTimes(a, sum, w, q) ==
    notna(a) /\ notna(sum) /\ a * w * q.den >= sum * q.num

\* a >= b * q
GeTimes(a, b, q) == notna(a) /\ notna(b) /\ a * q.den >= b * q.num

Close(df) == [i \in DOMAIN df |-> df[i].Close]
Volume(df) == [i \in DOMAIN df |-> df[i].Volume]

\* df with the columns Vol_Avg_20 (20 times the mean), Close_20_Ago, Change_C
Indicators(df) ==
    [i \in DOMAIN df |->
        [Date |-> df[i].Date, Open |-> df[i].Open, Close |-> df[i].Close,
         Volume |-> df[i].Volume,
         Vol_Avg_20 |-> RollingSum(Volume(df), 20, i),
         Close_20_Ago |-> Shift(Close(df), 20, i),
         Change_C |-> Rat(df[i].Close - df[i].Open, df[i].Open)]]

NaNRow ==
    [Date |-> NaN, Open |-> NaN, Close |-> NaN, Volume |-> NaN,
     Vol_Avg_20 |-> NaN, Close_20_Ago |-> NaN, Change_C |-> RatNaN]

\* DataFrame.shift(k)
ShiftFrame(f, k) ==
    [i \in DOMAIN f |-> IF i - k \in DOMAIN f THEN f[i - k] ELSE NaNRow]

\* C1_day = df.shift(-4)
C1_day(f) == ShiftFrame(f, -4)

Is_Downtrend(f, i) == Lt(f[i].Close, f[i].Close_20_Ago)

Is_C1(f, i) ==
    /\ GeRat(C1_day(f)[i].Change_C, MIN_BULLISH_CHANGE)
    /\ GeMeanTimes(C1_day(f)[i].Volume, C1_day(f)[i].Vol_Avg_20, 20,
                   MIN_VOL_MULTIPLIER)

\* Close.shift(-1) >= C1_Close * 0.95
Consolidation_OK(f, i) ==
    GeTimes(Shift(Close(f), -1, i), C1_day(f)[i].Close, Rat(95, 100))

Is_C2(f, i) ==
    /\ GeRat(f[i].Change_C, MIN_BULLISH_CHANGE)
    /\ Ge(f[i].Volume, C1_day(f)[i].Volume)
    /\ Gt(f[i].Close, C1_day(f)[i].Close)

\* The derived columns of every row, and the list of signals returned.
check_bottom_double_bullish(rows) ==
    LET df == SortByDate(rows)
        latest_close == df[Len(df)].Close
    IN IF Len(df) < 20 THEN [cols |-> <<>>, results |-> <<>>]
       ELSE IF latest_close < MIN_CLOSE_PRICE \/ latest_close > MAX_CLOSE_PRICE
       THEN [cols |-> <<>>, results |-> <<>>]
       ELSE
         LET f == Indicators(df)
             cols == [i \in DOMAIN f |->
                         [Is_Downtrend |-> Is_Downtrend(f, i),
                          Is_C1 |-> Is_C1(f, i),
                          Consolidation_OK |-> Consolidation_OK(f, i),
                          Is_C2 |-> Is_C2(f, i)]]
             last == cols[Len(cols)]
             signal == /\ last.Is_Downtrend
                       /\ last.Is_C1
                       /\ last.Consolidation_OK
                       /\ last.Is_C2
         IN [cols |-> cols,
             results |-> IF signal
                         THEN <<[signal_date |-> df[Len(df)].Date,
                                 latest_close |-> latest_close]>>
                         ELSE <<>>]

\* results = check_bottom_double_bullish(df, stock_code, names_map)
CallCheckBottomDoubleBullish ==
    /\ scanner = "bottom_double_bullish"
    /\ scan_pc = "call"
    /\ scan_cols' = check_bottom_double_bullish(scan_df).cols
    /\ scan_result' = check_bottom_double_bullish(scan_df).results
    /\ scan_pc' = "returned"
    /\ UNCHANGED <<scanner, scan_df>>
    /\ UNCHANGED notScan

MaxNewBars == 5

\* twenty quiet days at a close of 15
QuietHistory == [i \in 1..20 |-> [Date |-> i, Open |-> 15, Close |-> 15,
                                  Volume |-> 100]]

DayFall == [Open |-> 15, Close |-> 12, Volume |-> 100]
DayBullish == [Open |-> 12, Close |-> 13, Volume |-> 150]
DayQuiet == [Open |-> 13, Close |-> 13, Volume |-> 80]
DayBullishMore == [Open |-> 13, Close |-> 14, Volume |-> 200]
Days == {DayFall, DayBullish, DayQuiet, DayBullishMore}

\* The stock's file has gained the bar of the next day when the scanner is
\* run again; main reads the whole file anew.
NewBar(b) ==
    /\ scanner = "bottom_double_bullish"
    /\ scan_pc = "returned"
    /\ Len(scan_df) < Len(QuietHistory) + MaxNewBars
    /\ scan_df' = Append(scan_df, [Date |-> Len(scan_df) + 1, Open |-> b.Open,
                                   Close |-> b.Close, Volume |-> b.Volume])
    /\ scan_pc' = "call"
    /\ UNCHANGED <<scanner, scan_cols, scan_result>>
    /\ UNCHANGED notScan

InitBottomDoubleBullish ==
    /\ OnlyScan
    /\ scanner = "bottom_double_bullish"
    /\ scan_df = QuietHistory
    /\ scan_cols = <<>>
    /\ scan_result = <<>>
    /\ scan_pc = "call"

NextBottomDoubleBullish ==
    \/ CallCheckBottomDoubleBullish
    \/ \E b \in Days : NewBar(b)

SpecBottomDoubleBullish ==
    InitBottomDoubleBullish /\ [][NextBottomDoubleBullish]_vars

\* C5: no look-ahead. When the scanner is run again on the file grown by
\* later bars, the columns Is_C1, Consolidation_OK and Is_C2 of every row
\* that was already there keep the values of the run before.
C5_NoLookAhead ==
    [][(/\ scanner = "bottom_double_bullish"
        /\ scan_cols # <<>>
        /\ scan_cols' # <<>>)
       => \A i \in DOMAIN scan_cols :
              /\ scan_cols'[i].Is_C1 = scan_cols[i].Is_C1
              /\ scan_cols'[i].Consolidation_OK = scan_cols[i].Consolidation_OK
              /\ scan_cols'[i].Is_C2 = scan_cols[i].Is_C2]_vars

---------------------------------------------------------------------------
(* lower_shadow_reversal_scan.py: process_file, from the read of the file  *)
(* of a stock that check_exclusions keeps                                  *)

MIN_CLOSE_PRICE_LS == 5
MAX_CLOSE_PRICE_LS == 20
\* 0.75
LOWER_SHADOW_RATIO == Rat(75, 100)
MIN_TURNOVER_RATE == 1

\* a - b on floats
Sub(a, b) == IF notna(a) /\ notna(b) THEN a - b ELSE NaN

\* Python's min(a, b): b when b < a, else a
PyMin(a, b) == IF Lt(b, a) THEN b ELSE a

process_file(df) ==
    IF df = <<>> THEN <<>>
    ELSE
      LET latest_data == df[Len(df)]
          close == latest_data.Close
          open_price == latest_data.Open
          high == latest_data.High
          low == latest_data.Low
          turnover_rate == latest_data.TurnoverRate
          total_range == Sub(high, low)
          lower_shadow == Sub(PyMin(open_price, close), low)
      IN IF ~(Le(MIN_CLOSE_PRICE_LS, close) /\ Le(close, MAX_CLOSE_PRICE_LS))
         THEN <<>>
         ELSE IF Lt(turnover_rate, MIN_TURNOVER_RATE) THEN <<>>
         \* total_range < 0.01
         ELSE IF notna(total_range) /\ total_range * 100 < 1 THEN <<>>
         \* lower_shadow / total_range >= LOWER_SHADOW_RATIO
         ELSE IF GeTimes(lower_shadow, total_range, LOWER_SHADOW_RATIO)
         THEN <<"stock_code">>
         ELSE <<>>

CallProcessFile ==
    /\ scanner = "lower_shadow"
    /\ scan_pc = "call"
    /\ scan_result' = process_file(scan_df)
    /\ scan_pc' = "returned"
    /\ UNCHANGED <<scanner, scan_df, scan_cols>>
    /\ UNCHANGED notScan

\* The file: empty, or the bar of day 1 and the bar of day 2, whose fields
\* may be missing; the rows are stored in the order of their dates or in
\* the reverse order.
EarlierBar ==
    [Date |-> 1, Open |-> 10, Close |-> 10, High |-> 10, Low |-> 10,
     TurnoverRate |-> 2]

LatestBars ==
    [Date : {2}, Open : {NaN, 10, 11}, Close : {NaN, 4, 10, 25}, High : {NaN, 11},
     Low : {NaN, 6, 10, 12}, TurnoverRate : {NaN, 0, 2}]

InitLowerShadow ==
    /\ OnlyScan
    /\ scanner = "lower_shadow"
    /\ scan_df \in {<<>>} \cup {<<EarlierBar, b>> : b \in LatestBars}
                        \cup {<<b, EarlierBar>> : b \in LatestBars}
    /\ scan_cols = <<>>
    /\ scan_result = <<>>
    /\ scan_pc = "call"

---------------------------------------------------------------------------
(* volume_bottom_scanner.py: analyze_stock_file *)

PRICE_MIN == 8
VOLUME_PERIOD == 120
PRICE_LOW_PERIOD == 40
\* 0.10
VOLUME_SHRINK_RATIO == Rat(1, 10)
\* 0.10
PRICE_LOW_RANGE_RATIO == Rat(1, 10)

\* Series.max() and Series.min(): NaN values are skipped
SkipNaMax(col) ==
    LET v == {col[k] : k \in DOMAIN col} \ {NaN}
    IN IF v = {} THEN NaN ELSE SetMax(v)

SkipNaMin(col) ==
    LET v == {col[k] : k \in DOMAIN col} \ {NaN}
    IN IF v = {} THEN NaN ELSE SetMin(v)

\* .iloc[-n:]
LastN(s, n) == IF Len(s) <= n THEN s ELSE SubSeq(s, Len(s) - n + 1, Len(s))

\* a > b * q
GtTimes(a, b, q) == notna(a) /\ notna(b) /\ a * q.den > b * q.num

\* a + q * b
PlusTimes(a, q, b) ==
    IF notna(a) /\ notna(b) THEN Rat(a * q.den + q.num * b, q.den) ELSE RatNaN

\* a > x for a float a and a rational x
GtRat(a, x) == notna(a) /\ x # RatNaN /\ a * x.den > x.num

analyze_stock_file(rows) ==
    LET df == SortByDate(rows)
        n == IF VOLUME_PERIOD >= PRICE_LOW_PERIOD
             THEN VOLUME_PERIOD ELSE PRICE_LOW_PERIOD
    IN IF Len(df) < n THEN <<>>
       ELSE
         LET latest_data == df[Len(df)]
             latest_close == latest_data.Close
             latest_volume == latest_data.Volume
             history_df == LastN(df, n)
             max_volume == SkipNaMax(LastN(Volume(history_df), VOLUME_PERIOD))
             price_history == LastN(Close(history_df), PRICE_LOW_PERIOD)
             low_price == SkipNaMin(price_history)
             high_price == SkipNaMax(price_history)
             price_range == Sub(high_price, low_price)
             low_threshold ==
                 PlusTimes(low_price, PRICE_LOW_RANGE_RATIO, price_range)
         IN IF Lt(latest_close, PRICE_MIN) THEN <<>>
            ELSE IF GtTimes(latest_volume, max_volume, VOLUME_SHRINK_RATIO)
            THEN <<>>
            ELSE IF GtRat(latest_close, low_threshold) THEN <<>>
            ELSE <<[Latest_Close |-> latest_close,
                    Latest_Volume |-> latest_volume,
                    Max_Volume_120d |-> max_volume,
                    Low_Price_40d_Threshold |-> low_threshold]>>

CallAnalyzeStockFile ==
    /\ scanner = "volume_bottom"
    /\ scan_pc = "call"
    /\ scan_result' = analyze_stock_file(scan_df)
    /\ scan_pc' = "returned"
    /\ UNCHANGED <<scanner, scan_df, scan_cols>>
    /\ UNCHANGED notScan

\* The 119 bars before the latest one: closes of 20 on the first 80 days and
\* of 10 afterwards, but hp on day 100; volumes of 100, but vp on day 5.
VolumeHistory(vp, hp) ==
    [i \in 1..(VOLUME_PERIOD - 1) |->
        [Date |-> i,
         Close |-> IF i <= 80 THEN 20 ELSE IF i = 100 THEN hp ELSE 10,
         Volume |-> IF i = 5 THEN vp ELSE 100]]

InitVolumeBottom ==
    \E vp \in {100, 2000} : \E hp \in {10, 50} :
        \E c \in {NaN, 7, 10, 13} : \E v \in {NaN, 50, 500} :
            \E first \in {1, 2} :
                /\ OnlyScan
                /\ scanner = "volume_bottom"
                /\ scan_df =
                       SubSeq(VolumeHistory(vp, hp), first, VOLUME_PERIOD - 1)
                           \o <<[Date |-> VOLUME_PERIOD, Close |-> c,
                                 Volume |-> v]>>
                /\ scan_cols = <<>>
                /\ scan_result = <<>>
                /\ scan_pc = "call"

\* one run of either scanner over one stock file
InitScanners == InitLowerShadow \/ InitVolumeBottom

NextScanners == CallProcessFile \/ CallAnalyzeStockFile

SpecScanners == InitScanners /\ [][NextScanners]_vars

\* a value the scanner's predicate needs is NaN on the decision bar
C6_DecisionBarHasNaN ==
    /\ scan_df # <<>>
    /\ LET r == scan_df[Len(scan_df)]
       IN \/ /\ scanner = "lower_shadow"
             /\ NaN \in {r.Close, r.Open, r.High, r.Low, r.TurnoverRate}
          \/ /\ scanner = "volume_bottom"
             /\ Len(scan_df) >= VOLUME_PERIOD
             /\ NaN \in {r.Close, r.Volume}

\* C6: when a value the predicate needs on the decision bar is NaN, the
\* scanner (process_file, analyze_stock_file) emits no signal for the stock.
C6_NaNForcesNoSignal ==
    (scan_pc = "returned" /\ C6_DecisionBarHasNaN) => scan_result = <<>>

\* C6, final_filter of run_backtest_analysis: a recorded signal has a value
\* in Prev_MACD_Histo, the column that is NaN on the first row of a file.
C6_FinalFilterNeedsValues ==
    \A f \in DOMAIN all_signals_data :
        \A k \in DOMAIN all_signals_data[f] :
            LET rec == all_signals_data[f][k]
            IN notna(Prev_MACD_Histo(files[rec.StockCode], rec.row))

---------------------------------------------------------------------------
(* backtest_screener.py: run_backtest.  Dates are day numbers; day d is a  *)
(* weekday when d % 7 < 5.  A row carries in mode_1 what the MACD, volume  *)
(* and breakout conditions of check_mode_1 give on the history up to it.   *)

HOLDING_DAYS_BS == 5
MAX_STOCKS_TO_PROCESS == 50
NUM_DAYS_LOOKBACK == 20
BACKTEST_START_DATE == 79
BACKTEST_END_DATE == 82

\* Python's None where a float is expected
None == NaN

\* None (<<>>) when fewer than 60 rows are dated up to end_date
load_stock_history(file, end_date) ==
    LET df == SortByDate(file.rows)
        UpTo(r) == r.Date <= end_date
        df_filtered == SelectSeq(df, UpTo)
    IN IF Len(df_filtered) < 60 THEN <<>> ELSE df_filtered

\* stock_screener_core.calculate_indicators: None (<<>>) below 60 rows;
\* dropna removes the rows before the 60th, where MA60 is NaN
calculate_indicators_core(df) ==
    IF Len(df) < 60 THEN <<>> ELSE SubSeq(df, 60, Len(df))

\* DataFrame.tail(n)
TailRows(df, n) == LastN(df, n)

check_mode_1(df_recent, df_full) ==
    IF Len(df_recent) < NUM_DAYS_LOOKBACK THEN FALSE
    ELSE df_recent[Len(df_recent)].mode_1

\* variant: the buy price is the close of the first bar after screen_date
get_future_price_next_bar(df_full, screen_date, holding_days) ==
    LET After(r) == r.Date > screen_date
        df_future == SelectSeq(df_full, After)
    IN IF df_future = <<>>
       THEN [buy_price |-> None, sell_price |-> None,
             returns |-> RatNaN, status |-> "No Buy Price on Screen Date"]
       ELSE IF Len(df_future) >= holding_days
       THEN [buy_price |-> df_future[1].Close,
             sell_price |-> df_future[holding_days].Close,
             returns |-> Rat((df_future[holding_days].Close
                                 - df_future[1].Close) * 100,
                             df_future[1].Close),
             status |-> "float"]
       ELSE [buy_price |-> df_future[1].Close, sell_price |-> None,
             returns |-> RatNaN, status |-> "Not Enough Data"]

\* status is "float" when returns is a number, else the text returned in
\* its place
get_future_price(df_full, screen_date, holding_days) ==
    LET After(r) == r.Date > screen_date
        On(r) == r.Date = screen_date
        df_future == SelectSeq(df_full, After)
        on_screen_date == SelectSeq(df_full, On)
    IN IF on_screen_date = <<>>
       THEN [buy_price |-> None, sell_price |-> None,
             returns |-> RatNaN, status |-> "No Buy Price on Screen Date"]
       ELSE IF Len(df_future) >= holding_days
       THEN [buy_price |-> on_screen_date[1].Close,
             sell_price |-> df_future[holding_days].Close,
             returns |-> Rat((df_future[holding_days].Close
                                 - on_screen_date[1].Close) * 100,
                             on_screen_date[1].Close),
             status |-> "float"]
       ELSE [buy_price |-> on_screen_date[1].Close, sell_price |-> None,
             returns |-> RatNaN, status |-> "Not Enough Data"]

\* f'{x:.2f}' of a rational, as a number of hundredths
Fmt2(x) == (2 * 100 * x.num + x.den) \div (2 * x.den)

\* the trades of one file on one screening date (none or one)
ScreenedTrades(code, file, screen_date) ==
    LET df_history == load_stock_history(file, screen_date)
        df_calc == calculate_indicators_core(df_history)
        df_recent == TailRows(df_calc, 20)
        ret == get_future_price(df_history, screen_date, HOLDING_DAYS_BS)
    IN IF df_history = <<>> THEN <<>>
       ELSE IF Len(df_calc) < 2 THEN <<>>
       ELSE IF ~check_mode_1(df_recent, df_calc) THEN <<>>
       ELSE IF ret.status # "float" THEN <<>>
       ELSE <<[Screen_Date |-> screen_date, Code |-> code,
               Buy_Price |-> Fmt2(Rat(ret.buy_price, 1)),
               Sell_Price |-> Fmt2(Rat(ret.sell_price, 1)),
               Returns |-> Fmt2(ret.returns),
               Is_Win |-> ret.returns.num > 0]>>

\* what get_future_price returned, when the iteration called it
PricesReturned(file, screen_date) ==
    LET df_history == load_stock_history(file, screen_date)
        df_calc == calculate_indicators_core(df_history)
    IN IF df_history = <<>> \/ Len(df_calc) < 2
          \/ ~check_mode_1(TailRows(df_calc, 20), df_calc)
       THEN <<>>
       ELSE <<get_future_price(df_history, screen_date, HOLDING_DAYS_BS)>>

\* one iteration of "for file_path in all_files" on a file that can be read
ScreenFile ==
    /\ bs_pc = "files"
    /\ screen_idx <= Len(date_list)
    /\ file_idx <= Len(all_files)
    /\ all_files[file_idx].readable
    /\ daily_trades' =
           daily_trades \o ScreenedTrades(file_idx, all_files[file_idx],
                                          date_list[screen_idx])
    /\ prices' = PricesReturned(all_files[file_idx], date_list[screen_idx])
    /\ file_idx' = file_idx + 1
    /\ UNCHANGED <<all_files, date_list, screen_idx, all_results, summary, bs_pc>>
    /\ UNCHANGED notBS

\* the same iteration on a file that read_csv cannot parse or that lacks
\* the date column: the exception leaves run_backtest
ScreenFileRaises ==
    /\ bs_pc = "files"
    /\ screen_idx <= Len(date_list)
    /\ file_idx <= Len(all_files)
    /\ ~all_files[file_idx].readable
    /\ bs_pc' = "raised"
    /\ UNCHANGED <<all_files, date_list, screen_idx, file_idx, prices,
                   daily_trades, all_results, summary>>
    /\ UNCHANGED notBS

\* all_results.extend(daily_trades), then the next screening date
EndOfDate ==
    /\ bs_pc = "files"
    /\ screen_idx <= Len(date_list)
    /\ file_idx > Len(all_files)
    /\ all_results' = all_results \o daily_trades
    /\ daily_trades' = <<>>
    /\ screen_idx' = screen_idx + 1
    /\ file_idx' = 1
    /\ UNCHANGED <<all_files, date_list, prices, summary, bs_pc>>
    /\ UNCHANGED notBS

\* the analysis of the results after the last date
Summarise ==
    /\ bs_pc = "files"
    /\ screen_idx > Len(date_list)
    /\ bs_pc' = "done"
    /\ summary' =
           IF all_results = <<>> THEN <<>>
           ELSE LET IsWinning(t) == t.Is_Win
                    returns == [k \in DOMAIN all_results |-> all_results[k].Returns]
                IN <<[total_trades |-> Len(all_results),
                      wins |-> Len(SelectSeq(all_results, IsWinning)),
                      sum_returns |-> SeqSum(returns),
                      rows |-> all_results]>>
    /\ UNCHANGED <<all_files, date_list, screen_idx, file_idx, prices,
                   daily_trades, all_results>>
    /\ UNCHANGED notBS

NextBacktestScreener ==
    \/ ScreenFile
    \/ ScreenFileRaises
    \/ EndOfDate
    \/ Summarise

\* the weekdays from BACKTEST_START_DATE to BACKTEST_END_DATE
Weekdays ==
    LET IsWeekday(d) == d % 7 < 5
    IN SelectSeq([k \in 1..(BACKTEST_END_DATE - BACKTEST_START_DATE + 1) |->
                     BACKTEST_START_DATE + k - 1], IsWeekday)

MaxScreenFiles == 2

\* all_files[:n]
FirstN(s, n) == IF Len(s) <= n THEN s ELSE SubSeq(s, 1, n)

\* A stock file: n quiet days at a close of 10, then daily bars up to day
\* last_day with rising closes; check_mode_1's conditions hold on fire_day.
StockFile(n, last_day, fire_day) ==
    [readable |-> TRUE,
     rows |-> [i \in 1..last_day |->
                  [Date |-> i,
                   Close |-> IF i <= n THEN 10 ELSE 10 + (i - n),
                   mode_1 |-> (i = fire_day)]]]

UnreadableFile == [readable |-> FALSE, rows |-> <<>>]

StockFiles ==
    {StockFile(78, last_day, fire_day) :
        last_day \in {80, 86}, fire_day \in {0, 79, 80}}
    \cup {[readable |-> TRUE,
           rows |-> SubSeq(StockFile(78, 80, 79).rows, 30, 80)],
          UnreadableFile}

InitBacktestScreener ==
    \E n \in 1..MaxScreenFiles : \E fs \in [1..n -> StockFiles] :
        /\ OnlyBS
        /\ all_files = FirstN(fs, MAX_STOCKS_TO_PROCESS)
        /\ date_list = Weekdays
        /\ screen_idx = 1
        /\ file_idx = 1
        /\ prices = <<>>
        /\ daily_trades = <<>>
        /\ all_results = <<>>
        /\ summary = <<>>
        /\ bs_pc = "files"

SpecBacktestScreener == InitBacktestScreener /\ [][NextBacktestScreener]_vars

\* C11: a file that cannot be loaded never aborts the batch; run_backtest
\* goes on to the other files and reaches its analysis of the results.
C11_FailureNeverAbortsBatch == bs_pc # "raised"

---------------------------------------------------------------------------
(* ma_volume_strategy_backtester.py: the selection logic *)

MAX_STOCK_COUNT == 25
MAX_WORKERS == 4
BREAKOUT_PERIOD == 20
BACKTEST_STEP_DAYS == 1
BACKTEST_START_DATE_MB == 38
BACKTEST_END_DATE_MB == 41

\* a * w > sum, the mean given as the sum of its w values
GtMean(a, sum, w) == notna(a) /\ notna(sum) /\ a * w > sum

\* the rows with MA20 and VMA20 (20 times the mean) and High_20D, after
\* dropna; an empty frame below BREAKOUT_PERIOD rows
calculate_indicators(d) ==
    IF Len(d) < BREAKOUT_PERIOD THEN <<>>
    ELSE LET df == [i \in DOMAIN d |->
                       [Date |-> d[i].Date, Close |-> d[i].Close,
                        Volume |-> d[i].Volume,
                        MA20 |-> RollingSum(Close(d), 20, i),
                        VMA20 |-> RollingSum(Volume(d), 20, i),
                        High_20D |-> RollingMax(Close(d), BREAKOUT_PERIOD, i)]]
             Complete(r) == /\ notna(r.Date) /\ notna(r.Close) /\ notna(r.Volume)
                            /\ notna(r.MA20) /\ notna(r.VMA20)
                            /\ notna(r.High_20D)
         IN SelectSeq(df, Complete)

check_c1_price_breakout(d) ==
    IF Len(d) < 2 THEN FALSE
    ELSE LET d0 == d[Len(d)]
         IN Gt(d0.Close, d0.High_20D)

check_c4_trend_control(d, max_drawdown, max_days, trend_ma_period) ==
    IF Len(d) < trend_ma_period THEN FALSE
    ELSE LET ma_trend == LastN([i \in DOMAIN d |-> d[i].MA20], 5)
             ma_slope == Sub(ma_trend[Len(ma_trend)], ma_trend[1])
             recent_high == SkipNaMax(LastN(Close(d), max_days))
             current_price == d[Len(d)].Close
             \* (recent_high - current_price) / recent_high <= max_drawdown
             is_drawdown_controlled ==
                 IF recent_high > 0
                 THEN (recent_high - current_price) * max_drawdown.den
                          <= max_drawdown.num * recent_high
                 ELSE (recent_high - current_price) * max_drawdown.den
                          >= max_drawdown.num * recent_high
         IN IF Len(ma_trend) < 5 THEN FALSE
            ELSE IF recent_high = 0 THEN FALSE
            ELSE Gt(ma_slope, 0) /\ is_drawdown_controlled

check_c5_volume_filter(d) ==
    IF d = <<>> THEN FALSE
    ELSE GtMean(d[Len(d)].Volume, d[Len(d)].VMA20, 20)

select_stock_logic(rows) ==
    LET ind == calculate_indicators(rows)
        d == SortByDate(ind)
    IN IF ind = <<>> THEN FALSE
       ELSE /\ check_c1_price_breakout(d)
            /\ check_c4_trend_control(d, Rat(15, 100), 30, 20)
            /\ check_c5_volume_filter(d)

get_data_up_to_date(d, target_date) ==
    LET UpTo(r) == r.Date <= target_date
    IN SelectSeq(d, UpTo)

\* The trades of one stock over the test dates; <<>> is None.  A file that
\* cannot be read raises inside the function, which returns None.
backtest_single_stock(code, file, dates) ==
    IF ~file.readable THEN <<>>
    ELSE
      LET HasDate(r) == notna(r.Date)
          d == SortByDate(SelectSeq(file.rows, HasDate))
          Trade(test_date) ==
              LET hist_data == get_data_up_to_date(d, test_date)
                  is_trade_day == \E i \in DOMAIN hist_data :
                                      hist_data[i].Date = test_date
                  ret == calculate_return(d, test_date, HOLD_DAYS, STOP_LOSS_MA)
              IN IF ~is_trade_day THEN <<>>
                 ELSE IF ~select_stock_logic(hist_data) THEN <<>>
                 ELSE IF ret = <<>> THEN <<>>
                 ELSE <<[code |-> code, buy_date |-> test_date,
                         sell_date |-> ret[1].sell_date,
                         return |-> ret[1].ret]>>
      IN Concat([k \in DOMAIN dates |-> Trade(dates[k])])

---------------------------------------------------------------------------
(* ma_volume_strategy_backtester.py: main_backtester and its thread pool *)

Running == {i \in DOMAIN future_state : future_state[i] = "running"}

\* a worker thread of the pool takes a submitted task
WorkerStart(i) ==
    /\ mb_pc = "pool"
    /\ future_state[i] = "pending"
    /\ Cardinality(Running) < MAX_WORKERS
    /\ future_state' = [future_state EXCEPT ![i] = "running"]
    /\ UNCHANGED <<mb_files, test_dates, future_result, completed,
                   mb_all_results, processed_count, mb_report, mb_pc>>
    /\ UNCHANGED notMB

\* backtest_single_stock returns in the worker thread
WorkerFinish(i) ==
    /\ mb_pc = "pool"
    /\ future_state[i] = "running"
    /\ future_state' = [future_state EXCEPT ![i] = "finished"]
    /\ future_result' =
           [future_result EXCEPT
               ![i] = backtest_single_stock(i, mb_files[i], test_dates)]
    /\ UNCHANGED <<mb_files, test_dates, completed, mb_all_results,
                   processed_count, mb_report, mb_pc>>
    /\ UNCHANGED notMB

\* one iteration of "for future in as_completed(future_to_file)"
MergeResult(i) ==
    /\ mb_pc = "pool"
    /\ future_state[i] = "finished"
    /\ \A k \in DOMAIN completed : completed[k] # i
    /\ completed' = Append(completed, i)
    /\ processed_count' = processed_count + 1
    /\ mb_all_results' = mb_all_results \o future_result[i]
    /\ UNCHANGED <<mb_files, test_dates, future_state, future_result,
                   mb_report, mb_pc>>
    /\ UNCHANGED notMB

\* step 4 of main_backtester: the statistics, when there is a trade
ReportBacktest ==
    /\ mb_pc = "pool"
    /\ Len(completed) = Len(mb_files)
    /\ mb_pc' = "done"
    /\ mb_report' =
           IF mb_all_results = <<>> THEN <<>>
           ELSE LET Won(t) == t.return.num > 0
                IN <<[total_trades |-> Len(mb_all_results),
                      wins |-> Len(SelectSeq(mb_all_results, Won)),
                      rows |-> mb_all_results]>>
    /\ UNCHANGED <<mb_files, test_dates, future_state, future_result,
                   completed, mb_all_results, processed_count>>
    /\ UNCHANGED notMB

NextMainBacktester ==
    \/ \E i \in DOMAIN future_state : WorkerStart(i)
    \/ \E i \in DOMAIN future_state : WorkerFinish(i)
    \/ \E i \in DOMAIN future_state : MergeResult(i)
    \/ ReportBacktest

\* Stock files: 38 quiet days (close 10, volume 100), then the bars given
\* as <<day, close, volume>>.
QuietDays(n) == [i \in 1..n |-> [Date |-> i, Close |-> 10, Volume |-> 100]]

FileOf(n, bars) ==
    [readable |-> TRUE,
     rows |-> QuietDays(n) \o [k \in DOMAIN bars |->
                                  [Date |-> bars[k][1], Close |-> bars[k][2],
                                   Volume |-> bars[k][3]]]]

\* new 20-day highs on rising volume
FileBreakoutMB == FileOf(38, <<<<39, 11, 200>>, <<40, 12, 300>>, <<41, 13, 400>>>>)
FileFlatMB == FileOf(38, <<<<39, 10, 100>>, <<40, 10, 100>>, <<41, 10, 100>>>>)
FileFallMB == FileOf(38, <<<<39, 9, 200>>, <<40, 8, 300>>, <<41, 7, 400>>>>)
\* no bar on day 40
FileGapMB == FileOf(38, <<<<39, 11, 200>>, <<41, 12, 300>>>>)
FileShortMB == FileOf(10, <<<<39, 11, 200>>>>)
FileUnreadableMB == [readable |-> FALSE, rows |-> <<>>]

FilesMB == {FileBreakoutMB, FileFlatMB, FileFallMB, FileGapMB, FileShortMB,
            FileUnreadableMB}

MaxPoolFiles == 2

\* test_dates: every day from the start date to the end date
TestDates ==
    [k \in 1..((BACKTEST_END_DATE_MB - BACKTEST_START_DATE_MB)
                   \div BACKTEST_STEP_DAYS + 1) |->
        BACKTEST_START_DATE_MB + (k - 1) * BACKTEST_STEP_DAYS]

InitMainBacktester ==
    \E n \in 1..MaxPoolFiles : \E fs \in [1..n -> FilesMB] :
        /\ OnlyMB
        /\ mb_files = FirstN(fs, MAX_STOCK_COUNT)
        /\ test_dates = TestDates
        /\ future_state = [i \in 1..n |-> "pending"]
        /\ future_result = [i \in 1..n |-> <<>>]
        /\ completed = <<>>
        /\ mb_all_results = <<>>
        /\ processed_count = 0
        /\ mb_report = <<>>
        /\ mb_pc = "pool"

SpecMainBacktester == InitMainBacktester /\ [][NextMainBacktester]_vars

---------------------------------------------------------------------------
(* update.py: save_and_update_stock_data and the thread pool of main.  A   *)
(* stock file is kept as the sequence of the dates of its rows; the API    *)
(* has one row for every trading day up to today.                          *)

MAX_WORKERS_UPD == 15
MAX_RETRIES == 5

Codes == {1, 2}

\* every third day has no trading
IsTradingDay(d) == d % 3 # 0

\* sort_values(by='日期') of a frame of dates
RECURSIVE SortDates(_)
SortDates(ds) ==
    IF ds = <<>> THEN <<>>
    ELSE LET k == CHOOSE k \in DOMAIN ds : \A j \in DOMAIN ds :
                      ds[k] < ds[j] \/ (ds[k] = ds[j] /\ k <= j)
         IN <<ds[k]>> \o SortDates(SubSeq(ds, 1, k - 1) \o SubSeq(ds, k + 1, Len(ds)))

\* ak.stock_zh_a_hist(start_date, end_date), sorted by date
stock_zh_a_hist(start_date, end_date) ==
    LET InRange(d) == IsTradingDay(d)
    IN SelectSeq([k \in 1..(end_date - start_date + 1) |-> start_date + k - 1],
                 InRange)

PendingTask ==
    [pc |-> "pending", existing_df |-> <<>>, start_date |-> 1, result |-> <<>>]

ActiveTasks == {t \in DOMAIN task : task[t].pc = "download"}

\* The first part of save_and_update_stock_data: the local file is read
\* and the start date of the download is set.  read_ok is whether read_csv
\* succeeds on an existing file.
ReadExisting(t, read_ok) ==
    /\ upd_pc = "pool"
    /\ task[t].pc = "pending"
    /\ Cardinality(ActiveTasks) < MAX_WORKERS_UPD
    /\ LET rows == disk[current_batch[t]]
           existing_df == IF read_ok THEN SortDates(rows) ELSE <<>>
           last_date == existing_df[Len(existing_df)]
       IN task' = [task EXCEPT ![t] =
              IF existing_df = <<>>
              THEN [@ EXCEPT !.pc = "download"]
              ELSE IF last_date = today
              THEN [@ EXCEPT !.pc = "finished", !.existing_df = existing_df,
                             !.result = <<[is_success |-> TRUE, count |-> 0]>>]
              ELSE [@ EXCEPT !.pc = "download", !.existing_df = existing_df,
                             !.start_date = last_date + 1]]
    /\ UNCHANGED <<disk, today, current_batch, upd_completed, success_count,
                   fail_count, records_updated, upd_pc>>
    /\ UNCHANGED notUpd

\* variant: the rows downloaded are appended without the date filter
AppendedRows_unfiltered(new_data_df, existing_df) == new_data_df

\* new_data_df[new_data_df['日期'] > existing_df['日期'].iloc[-1]]
AppendedRows(new_data_df, existing_df) ==
    LET Newer(d) == d > existing_df[Len(existing_df)]
    IN SelectSeq(new_data_df, Newer)

\* variant: the worker thread adds its row count to the shared counter
Download_counting(t) ==
    /\ upd_pc = "pool"
    /\ task[t].pc = "download"
    /\ LET new_data_df == stock_zh_a_hist(task[t].start_date, today)
       IN /\ task' = [task EXCEPT ![t] =
                 [@ EXCEPT !.pc = "finished",
                           !.result = <<[is_success |-> TRUE,
                                         count |-> Len(new_data_df)]>>]]
          /\ records_updated' = records_updated + Len(new_data_df)
    /\ UNCHANGED <<disk, today, current_batch, upd_completed, success_count,
                   fail_count, upd_pc>>
    /\ UNCHANGED notUpd

\* The download loop when one of its attempts gets an answer from the API,
\* and the write of the file.  The attempts that raised before it only
\* slept.
Download(t) ==
    /\ upd_pc = "pool"
    /\ task[t].pc = "download"
    /\ \E attempt \in 0..(MAX_RETRIES - 1) : TRUE
    /\ LET code == current_batch[t]
           new_data_df == stock_zh_a_hist(task[t].start_date, today)
           appended == AppendedRows(new_data_df, task[t].existing_df)
           Finished(n) == [task EXCEPT ![t] =
                              [@ EXCEPT !.pc = "finished",
                                        !.result = <<[is_success |-> TRUE,
                                                      count |-> n]>>]]
       IN IF new_data_df = <<>>
          THEN /\ task' = Finished(0)
               /\ disk' = disk
          ELSE IF task[t].existing_df = <<>>
          THEN /\ disk' = [disk EXCEPT ![code] = new_data_df]
               /\ task' = Finished(Len(new_data_df))
          ELSE /\ disk' = [disk EXCEPT ![code] = @ \o appended]
               /\ task' = Finished(Len(appended))
    /\ UNCHANGED <<today, current_batch, upd_completed, success_count,
                   fail_count, records_updated, upd_pc>>
    /\ UNCHANGED notUpd

\* The download loop when every one of its max_retries attempts raises
\* (connection error): the task gives up.
DownloadRaises(t) ==
    /\ upd_pc = "pool"
    /\ task[t].pc = "download"
    /\ task' = [task EXCEPT ![t] =
           [@ EXCEPT !.pc = "finished",
                     !.result = <<[is_success |-> FALSE, count |-> 0]>>]]
    /\ UNCHANGED <<disk, today, current_batch, upd_completed, success_count,
                   fail_count, records_updated, upd_pc>>
    /\ UNCHANGED notUpd

\* one iteration of "for future in as_completed(future_to_stock)"
CountResult(t) ==
    /\ upd_pc = "pool"
    /\ task[t].pc = "finished"
    /\ \A k \in DOMAIN upd_completed : upd_completed[k] # t
    /\ upd_completed' = Append(upd_completed, t)
    /\ IF task[t].result[1].is_success
       THEN /\ success_count' = success_count + 1
            /\ records_updated' = records_updated + task[t].result[1].count
            /\ fail_count' = fail_count
       ELSE /\ fail_count' = fail_count + 1
            /\ UNCHANGED <<success_count, records_updated>>
    /\ UNCHANGED <<disk, today, current_batch, task, upd_pc>>
    /\ UNCHANGED notUpd

\* the pool is left when every future has been yielded
BatchDone ==
    /\ upd_pc = "pool"
    /\ Len(upd_completed) = Len(current_batch)
    /\ upd_pc' = "done"
    /\ UNCHANGED <<disk, today, current_batch, task, upd_completed,
                   success_count, fail_count, records_updated>>
    /\ UNCHANGED notUpd

MaxDay == 2
MaxBatch == 2

Batches == UNION {[1..n -> Codes] : n \in 1..MaxBatch}

\* main is run again, the same day or a later one, on a batch of the list
NextRun(day, batch) ==
    /\ upd_pc = "done"
    /\ day >= today
    /\ today' = day
    /\ current_batch' = batch
    /\ task' = [t \in DOMAIN batch |-> PendingTask]
    /\ upd_completed' = <<>>
    /\ success_count' = 0
    /\ fail_count' = 0
    /\ records_updated' = 0
    /\ upd_pc' = "pool"
    /\ UNCHANGED disk
    /\ UNCHANGED notUpd

NextUpdate ==
    \/ \E t \in DOMAIN task : \E read_ok \in BOOLEAN : ReadExisting(t, read_ok)
    \/ \E t \in DOMAIN task : Download(t)
    \/ \E t \in DOMAIN task : DownloadRaises(t)
    \/ \E t \in DOMAIN task : CountResult(t)
    \/ BatchDone
    \/ \E day \in 1..MaxDay : \E batch \in Batches : NextRun(day, batch)

\* the first run: no stock file exists yet
InitUpdate ==
    \E batch \in Batches :
        /\ OnlyUpd
        /\ disk = [c \in Codes |-> <<>>]
        /\ today = 1
        /\ current_batch = batch
        /\ task = [t \in DOMAIN batch |-> PendingTask]
        /\ upd_completed = <<>>
        /\ success_count = 0
        /\ fail_count = 0
        /\ records_updated = 0
        /\ upd_pc = "pool"

SpecUpdate == InitUpdate /\ [][NextUpdate]_vars

StrictlyAscending(ds) == \A i \in 1..(Len(ds) - 1) : ds[i] < ds[i + 1]

\* C18: every stock file has at most one row per date, in strictly
\* ascending order of date.
C18_FilesUniqueAscending == \A c \in Codes : StrictlyAscending(disk[c])

---------------------------------------------------------------------------
(* The two thread pools together: main_backtester of                       *)
(* ma_volume_strategy_backtester.py and main of update.py.                 *)

SpecPools ==
    /\ InitMainBacktester \/ InitUpdate
    /\ [][NextMainBacktester \/ NextUpdate]_vars

NoRepeats(s) == \A j, k \in DOMAIN s : j # k => s[j] # s[k]

\* the results of the futures yielded so far, in the order yielded
MergedBacktests == Concat([k \in DOMAIN completed |-> future_result[completed[k]]])

CountedUpdates == [k \in DOMAIN upd_completed |-> task[upd_completed[k]].result[1]]

Succeeded(r) == r.is_success

Failed(r) == ~r.is_success

RowCounts(rs) == [k \in DOMAIN rs |-> IF rs[k].is_success THEN rs[k].count ELSE 0]

\* the accumulators hold the results of the futures yielded, each once
C12_Accumulated ==
    /\ NoRepeats(completed)
    /\ \A k \in DOMAIN completed : future_state[completed[k]] = "finished"
    /\ processed_count = Len(completed)
    /\ mb_all_results = MergedBacktests
    /\ mb_pc = "done" => {completed[k] : k \in DOMAIN completed} = DOMAIN mb_files
    /\ NoRepeats(upd_completed)
    /\ \A k \in DOMAIN upd_completed : task[upd_completed[k]].pc = "finished"
    /\ success_count = Len(SelectSeq(CountedUpdates, Succeeded))
    /\ fail_count = Len(SelectSeq(CountedUpdates, Failed))
    /\ records_updated = SeqSum(RowCounts(CountedUpdates))
    /\ upd_pc = "done" =>
           {upd_completed[k] : k \in DOMAIN upd_completed} = DOMAIN current_batch

\* a step that changes an accumulator is a step of the coordinating thread
\* that takes one finished future, and leaves the workers as they are
C12_CoordinatorStep ==
    /\ <<mb_all_results, processed_count>> # <<mb_all_results', processed_count'>>
           => /\ \E i \in DOMAIN future_state : completed' = Append(completed, i)
              /\ UNCHANGED <<future_state, future_result>>
    /\ (/\ <<success_count, fail_count, records_updated>>
              # <<success_count', fail_count', records_updated'>>
        /\ upd_pc = "pool" /\ upd_pc' = "pool")
           => /\ \E t \in DOMAIN task : upd_completed' = Append(upd_completed, t)
              /\ UNCHANGED task

\* C12: the worker threads of a pool never write the shared accumulators;
\* the coordinating thread merges the result of each future exactly once,
\* after that future has finished.
C12_WorkersNeverWriteAccumulators ==
    [](C12_Accumulated) /\ [][C12_CoordinatorStep]_vars

\* two results were merged in the reverse of the order of submission: one
\* task wrote rows, the other gave up
C12_Witness ==
    /\ upd_pc = "done"
    /\ upd_completed = <<2, 1>>
    /\ records_updated > 0
    /\ fail_count = 1

---------------------------------------------------------------------------
(* Order of the rows of an input file *)

\* C13: for a file whose rows are stored in any order, process_file of
\* lower_shadow_reversal_scan returns the signal it returns for the same
\* rows sorted ascending by date.
C13_PermutedFileSameSignal ==
    (scanner = "lower_shadow" /\ scan_pc = "returned")
        => scan_result = process_file(SortByDate(scan_df))

---------------------------------------------------------------------------
(* The entry of a trade: calculate_return as backtest_single_stock calls   *)
(* it, and get_future_price on the rows of a stock file.                   *)

\* is_trade_day of backtest_single_stock: the test date has a bar
is_trade_day(d, test_date) == \E i \in DOMAIN d : d[i].Date = test_date

\* buy_price, sell_price, returns = get_future_price(df_full, screen_date,
\* HOLDING_DAYS) on the rows of the first file
CallGetFuturePrice ==
    /\ bs_pc = "call"
    /\ prices' = <<get_future_price(SortByDate(all_files[file_idx].rows),
                                    date_list[screen_idx], HOLDING_DAYS_BS)>>
    /\ bs_pc' = "returned"
    /\ UNCHANGED <<all_files, date_list, screen_idx, file_idx, daily_trades,
                   all_results, summary>>
    /\ UNCHANGED notBS

InitFuturePrice ==
    \E f \in StockFiles \ {UnreadableFile} : \E d \in 77..87 :
        /\ OnlyBS
        /\ all_files = <<f>>
        /\ date_list = <<d>>
        /\ screen_idx = 1
        /\ file_idx = 1
        /\ prices = <<>>
        /\ daily_trades = <<>>
        /\ all_results = <<>>
        /\ summary = <<>>
        /\ bs_pc = "call"

SpecEntry ==
    /\ InitCalcReturn \/ InitFuturePrice
    /\ [][NextCalcReturn \/ CallGetFuturePrice]_vars

\* the close of the bar of the given date
CloseOn(d, date) == d[CHOOSE i \in DOMAIN d : d[i].Date = date].Close

\* C14: a trade is entered on the signal bar at that bar's close: when
\* calculate_return is called with a test date that has a bar (the only
\* calls backtest_single_stock makes), the return is taken from the close
\* of that bar; the buy price get_future_price returns is the close of the
\* bar of the screening date.
C14_EntryAtSignalBarClose ==
    /\ (cr_pc = "returned" /\ is_trade_day(data, buy_date) /\ ret_tuple # <<>>)
           => ret_tuple[1].ret.den = CloseOn(data, buy_date)
    /\ (bs_pc = "returned" /\ prices[1].buy_price # None)
           => /\ is_trade_day(all_files[1].rows, date_list[1])
              /\ prices[1].buy_price = CloseOn(all_files[1].rows, date_list[1])
              /\ prices[1].status = "float"
                     => prices[1].returns.den = prices[1].buy_price

\* get_future_price returned a trade whose screening date is followed by a
\* bar with another close
C14_Witness ==
    /\ bs_pc = "returned"
    /\ prices[1].status = "float"
    /\ is_trade_day(all_files[1].rows, date_list[1] + 1)
    /\ CloseOn(all_files[1].rows, date_list[1] + 1) # prices[1].buy_price

\* calculate_return returned a trade for a test date that has a bar, and
\* the next bar has another close
C14_WitnessTradeDay ==
    /\ cr_pc = "returned"
    /\ ret_tuple # <<>>
    /\ is_trade_day(data, buy_date)
    /\ \E i \in DOMAIN data :
           /\ data[i].Date > buy_date
           /\ data[i].Close # CloseOn(data, buy_date)

---------------------------------------------------------------------------
(* Divisions by a range or a volume: calculate_kdj of                      *)
(* stock_screener_core.py, check_shovel_bottom of shovel_bottom_scan.py,   *)
(* is_rising_three_methods of rising_three_methods_scanner.py and          *)
(* check_c3_long_lower_shadow of ma_volume_strategy.py.  Each function     *)
(* gives its result and the set of the denominators of the divisions it    *)
(* evaluated; a range plus 1e-6 is kept in millionths.                     *)

KDJ_N == 9

Abs(x) == IF x < 0 THEN -x ELSE x

\* n / d > p / q  and  n / d < p / q, for q > 0 and d # 0
QuotGt(n, d, p, q) == IF d > 0 THEN n * q > p * d ELSE n * q < p * d

QuotLt(n, d, p, q) == IF d > 0 THEN n * q < p * d ELSE n * q > p * d

\* variant: the zero denominators are left as they are
calculate_kdj_zero_kept(df, n) ==
    LET low_list == [j \in DOMAIN df |->
                        RollingMin([i \in DOMAIN df |-> df[i].Low], n, j)]
        high_list == [j \in DOMAIN df |->
                         RollingMax([i \in DOMAIN df |-> df[i].High], n, j)]
        denominator == [i \in DOMAIN df |->
            IF notna(low_list[i]) /\ notna(high_list[i])
            THEN Rat(high_list[i] - low_list[i], 1) ELSE RatNaN]
    IN [rows |-> [i \in DOMAIN df |->
                    [denominator |-> denominator[i],
                     RSV |-> IF denominator[i] = RatNaN \/ ~notna(df[i].Close)
                             THEN RatNaN
                             ELSE Rat((df[i].Close - low_list[i]) * 100
                                          * denominator[i].den,
                                      denominator[i].num)]],
        divisors |-> {denominator[i].num : i \in {j \in DOMAIN df :
                                                    denominator[j] # RatNaN}}]

\* the RSV column of calculate_kdj; K, D and J are exponentially weighted
\* means of it with fixed weights
calculate_kdj(df, n) ==
    LET low_list == [j \in DOMAIN df |->
                        RollingMin([i \in DOMAIN df |-> df[i].Low], n, j)]
        high_list == [j \in DOMAIN df |->
                         RollingMax([i \in DOMAIN df |-> df[i].High], n, j)]
        \* denominator[denominator == 0] = 1e-6
        denominator == [i \in DOMAIN df |->
            IF notna(low_list[i]) /\ notna(high_list[i])
            THEN IF high_list[i] - low_list[i] = 0
                 THEN Rat(1, 1000000)
                 ELSE Rat(high_list[i] - low_list[i], 1)
            ELSE RatNaN]
    IN [rows |-> [i \in DOMAIN df |->
                    [denominator |-> denominator[i],
                     RSV |-> IF denominator[i] = RatNaN \/ ~notna(df[i].Close)
                             THEN RatNaN
                             ELSE Rat((df[i].Close - low_list[i]) * 100
                                          * denominator[i].den,
                                      denominator[i].num)]],
        divisors |-> {denominator[i].num : i \in {j \in DOMAIN df :
                                                    denominator[j] # RatNaN}}]

\* the rows of df are newest first
check_shovel_bottom(df) ==
    IF Len(df) < 4 THEN [signal |-> FALSE, divisors |-> {}]
    ELSE
      LET c1 == df[1]
          c2 == df[2]
          c3 == df[3]
          c4 == df[4]
          Body(c) == Abs(c.Close - c.Open)
          \* (High - Low + 1e-6), in millionths
          RangeEps(c) == (c.High - c.Low) * 1000000 + 1
          is_c4_bearish == c4.Close < c4.Open
          is_c4_large_body ==
              /\ QuotGt(Body(c4) * 1000000, RangeEps(c4), 1, 2)
              /\ Body(c4) * 100 > c4.Open
          is_c3_small_body == QuotLt(Body(c3) * 1000000, RangeEps(c3), 2, 5)
          is_c2_bullish == c2.Close > c2.Open
          is_c2_large_body ==
              /\ QuotGt(Body(c2) * 1000000, RangeEps(c2), 1, 2)
              /\ Body(c2) * 1000 > c2.Open * 15
          is_c2_higher_than_c3 == c2.Close > c3.High
          is_c1_stable == c1.Close > c2.Open
          lows == {c4.Low, c3.Low, c2.Low}
          low_range == SetMax(lows) - SetMin(lows)
          is_bottom_area == low_range * 100 < c4.Close * 2
      IN [signal |-> /\ is_c4_bearish /\ is_c4_large_body
                     /\ is_c3_small_body
                     /\ is_c2_bullish /\ is_c2_large_body /\ is_c2_higher_than_c3
                     /\ is_c1_stable
                     /\ is_bottom_area,
          divisors |-> {RangeEps(c4), RangeEps(c3), RangeEps(c2)}]

is_rising_three_methods(df) ==
    IF Len(df) < 5 THEN [signal |-> FALSE, divisors |-> {}]
    ELSE
      LET df_5 == LastN(df, 5)
          isnull == \E k \in 1..5 :
                        NaN \in {df_5[k].Open, df_5[k].High, df_5[k].Low,
                                 df_5[k].Close}
          is_bullish_1 == df_5[1].Close > df_5[1].Open
          is_bullish_5 == df_5[5].Close > df_5[5].Open
          range_1 == df_5[1].High - df_5[1].Low
          body_1 == Abs(df_5[1].Close - df_5[1].Open)
          \* "and" evaluates body_1 / range_1 only after range_1 > 0
          divided == is_bullish_1 /\ range_1 > 0
          body_low_1 == PyMin(df_5[1].Open, df_5[1].Close)
          body_high_1 == IF df_5[1].Open > df_5[1].Close
                         THEN df_5[1].Open ELSE df_5[1].Close
          is_contained ==
              /\ SetMax({df_5[k].High : k \in 2..4}) < body_high_1
              /\ SetMin({df_5[k].Low : k \in 2..4}) > body_low_1
          is_breaking_out == is_bullish_5 /\ df_5[5].Close > df_5[1].High
      IN IF isnull THEN [signal |-> FALSE, divisors |-> {}]
         ELSE IF ~(divided /\ QuotGt(body_1, range_1, 3, 5))
         THEN [signal |-> FALSE,
               divisors |-> IF divided THEN {range_1} ELSE {}]
         ELSE [signal |-> is_contained /\ is_breaking_out,
               divisors |-> {range_1}]

check_c3_long_lower_shadow(d) ==
    IF d = <<>> THEN [signal |-> FALSE, divisors |-> {}]
    ELSE
      LET d0 == d[Len(d)]
          body_length == Abs(d0.Close - d0.Open)
          lower_shadow_length == PyMin(d0.Open, d0.Close) - d0.Low
          total_length == d0.High - d0.Low
      IN IF total_length = 0 \/ total_length * 1000 < d0.Close * 5
         THEN [signal |-> FALSE, divisors |-> {}]
         ELSE [signal |-> /\ QuotGt(lower_shadow_length, total_length, 2, 5)
                          /\ lower_shadow_length > body_length,
               divisors |-> {total_length}]

CallRangeFunction ==
    /\ scanner \in {"kdj", "shovel_bottom", "rising_three_methods",
                    "c3_long_lower_shadow"}
    /\ scan_pc = "call"
    /\ scan_result' =
           <<CASE scanner = "kdj" -> calculate_kdj(scan_df, KDJ_N)
               [] scanner = "shovel_bottom" -> check_shovel_bottom(scan_df)
               [] scanner = "rising_three_methods" ->
                      is_rising_three_methods(scan_df)
               [] OTHER -> check_c3_long_lower_shadow(scan_df)>>
    /\ scan_pc' = "returned"
    /\ UNCHANGED <<scanner, scan_df, scan_cols>>
    /\ UNCHANGED notScan

\* Input bars: a bar without range, a long falling bar, a long rising bar,
\* a small bar inside them, a bar with a long lower shadow, a high rising bar.
Candle(o, c, h, l) == [Open |-> o, Close |-> c, High |-> h, Low |-> l]

CandleFlat == Candle(100, 100, 100, 100)
CandleFall == Candle(120, 101, 121, 100)
CandleRise == Candle(101, 120, 121, 100)
CandleSmall == Candle(110, 111, 112, 102)
CandleShadow == Candle(119, 120, 121, 100)
CandleHigh == Candle(120, 130, 131, 119)

Candles == {CandleFlat, CandleFall, CandleRise, CandleSmall, CandleShadow,
            CandleHigh}

MaxCandles == 4

InitRangeFunction ==
    /\ OnlyScan
    /\ scan_cols = <<>>
    /\ scan_result = <<>>
    /\ scan_pc = "call"
    /\ \/ /\ scanner = "kdj"
          /\ \E n \in 0..2 : \E tail \in [1..n -> Candles] :
                 scan_df = [i \in 1..(KDJ_N - 1) |-> CandleFlat] \o tail
       \/ /\ scanner = "shovel_bottom"
          /\ \E n \in 3..MaxCandles : scan_df \in [1..n -> Candles]
       \/ /\ scanner = "rising_three_methods"
          /\ \E n \in 0..1 : \E first \in Candles : \E last \in Candles :
             \E mid \in {CandleFlat, CandleSmall} : \E head \in [1..n -> Candles] :
                 scan_df = head \o <<first, CandleSmall, mid, CandleSmall, last>>
       \/ /\ scanner = "c3_long_lower_shadow"
          /\ \E n \in 0..2 : scan_df \in [1..n -> Candles]

SpecRangeFunctions == InitRangeFunction /\ [][CallRangeFunction]_vars

\* the highest high of the bars equals the lowest low
ZeroRange(bars) ==
    SetMax({bars[k].High : k \in DOMAIN bars}) = SetMin({bars[k].Low : k \in DOMAIN bars})

\* C15: no division of the four functions has a zero denominator:
\* calculate_kdj puts 1e-6 where the rolling high equals the rolling low,
\* check_shovel_bottom divides by the range plus 1e-6, and
\* is_rising_three_methods and check_c3_long_lower_shadow give no signal
\* when the bar whose range they divide by has high = low.
C15_NoDivisionByZero ==
    scan_pc = "returned" /\ scanner \in {"kdj", "shovel_bottom",
                                         "rising_three_methods",
                                         "c3_long_lower_shadow"}
    => /\ 0 \notin scan_result[1].divisors
       /\ (scanner = "kdj") =>
              \A i \in KDJ_N..Len(scan_df) :
                  ZeroRange(SubSeq(scan_df, i - KDJ_N + 1, i))
                      => scan_result[1].rows[i].denominator = Rat(1, 1000000)
       /\ (scanner = "rising_three_methods" /\ Len(scan_df) >= 5
             /\ ZeroRange(<<scan_df[Len(scan_df) - 4]>>))
              => ~scan_result[1].signal
       /\ (scanner = "c3_long_lower_shadow" /\ scan_df # <<>>
             /\ ZeroRange(<<scan_df[Len(scan_df)]>>))
              => ~scan_result[1].signal

\* calculate_kdj returned for bars whose nine-bar window has no range
C15_Witness ==
    /\ scanner = "kdj"
    /\ scan_pc = "returned"
    /\ Len(scan_df) >= KDJ_N
    /\ ZeroRange(SubSeq(scan_df, 1, KDJ_N))
    /\ scan_result[1].rows[KDJ_N].RSV = Rat(0, 1)

\* the two patterns are found in some input
C15_SignalsFound ==
    /\ scan_pc = "returned"
    /\ scanner \in {"shovel_bottom", "rising_three_methods"}
    /\ scan_result[1].signal

---------------------------------------------------------------------------
(* stock_reversal_screener.py: calculate_indicators and                    *)
(* apply_screener_logic.  A rolling mean over w rows is kept as the sum of *)
(* the window; it is NaN on the first w - 1 rows.                          *)

MIN_CLOSE_PRICE_RS == 5
MA_SHORT_RS == 5
MA_LONG_RS == 20
LOW_REVERSAL_WINDOW == 30

\* rolling(window=w).mean() > rolling(window=v).mean() on row j
MeanGtMean(col, w, v, j) ==
    /\ j >= w /\ j >= v
    /\ RollingSum(col, w, j) * v > RollingSum(col, v, j) * w

\* rolling(window=30).apply(lambda x: (x[:-1] <= MA20 of those rows).any())
\* on row j: NaN on the first 29 rows, else 1 or 0
Low_Reversal_Check(df, j) ==
    LET closes == [i \in DOMAIN df |-> df[i].Close]
    IN IF j < LOW_REVERSAL_WINDOW THEN NaN
       ELSE IF \E k \in (j - LOW_REVERSAL_WINDOW + 1)..(j - 1) :
                   /\ k >= MA_LONG_RS
                   /\ closes[k] * MA_LONG_RS <= RollingSum(closes, MA_LONG_RS, k)
            THEN 1 ELSE 0

\* process_single_file: calculate_indicators, then apply_screener_logic on
\* its frame; <<>> is None
apply_screener_logic(rows) ==
    LET df == SortByDate(rows)
        j == Len(df)
        closes == [i \in DOMAIN df |-> df[i].Close]
        volumes == [i \in DOMAIN df |-> df[i].Volume]
    IN IF Len(df) < MA_LONG_RS THEN <<>>
       ELSE IF df[j].Close < MIN_CLOSE_PRICE_RS THEN <<>>
       ELSE IF ~(/\ MeanGtMean(closes, MA_SHORT_RS, MA_LONG_RS, j)
                 /\ df[j].Close * MA_SHORT_RS > RollingSum(closes, MA_SHORT_RS, j))
       THEN <<>>
       \* "not latest['Low_Reversal_Check']": only 0.0 is false, NaN is not
       ELSE IF Low_Reversal_Check(df, j) = 0 THEN <<>>
       ELSE IF ~MeanGtMean(volumes, MA_SHORT_RS, MA_LONG_RS, j) THEN <<>>
       ELSE <<[Latest_Close |-> df[j].Close]>>

CallApplyScreenerLogic ==
    /\ scanner = "stock_reversal"
    /\ scan_pc = "call"
    /\ scan_result' = apply_screener_logic(scan_df)
    /\ scan_pc' = "returned"
    /\ UNCHANGED <<scanner, scan_df, scan_cols>>
    /\ UNCHANGED notScan

MaxLatest == 2

\* pre quiet bars (close 10, volume 100), then up to MaxLatest bars
InitStockReversal ==
    \E pre \in {17, 18, 19, 27, 28, 29} : \E n \in 1..MaxLatest :
        \E tail \in [1..n -> [Close : {4, 10, 12}, Volume : {100, 200}]] :
            /\ OnlyScan
            /\ scanner = "stock_reversal"
            /\ scan_df = [i \in 1..(pre + n) |->
                             IF i <= pre
                             THEN [Date |-> i, Close |-> 10, Volume |-> 100]
                             ELSE [Date |-> i, Close |-> tail[i - pre].Close,
                                   Volume |-> tail[i - pre].Volume]]
            /\ scan_cols = <<>>
            /\ scan_result = <<>>
            /\ scan_pc = "call"

SpecStockReversal == InitStockReversal /\ [][CallApplyScreenerLogic]_vars

\* C16: an instrument with fewer than the 30 bars the Low_Reversal_Check
\* of apply_screener_logic needs gets no signal.
C16_ShortInstrumentSkipped ==
    (scanner = "stock_reversal" /\ scan_pc = "returned"
        /\ Len(scan_df) < LOW_REVERSAL_WINDOW)
        => scan_result = <<>>

---------------------------------------------------------------------------
(* The bars the stop-loss and take-profit levels are tested against *)

\* the bars i+1 .. i+HOLDING_DAYS of a file
BarsAfter(df, i) == SubSeq(df, i + 1, i + HOLDING_DAYS)

\* C17: in run_backtest_analysis the levels of a signal at bar i are tested
\* against the lowest low and the highest high of the bars i+1 ..
\* i+HOLDING_DAYS: the entry bar is left out and the horizon bar is in.
C17_LevelsTestedAfterEntryBar ==
    (script = "sltp" /\ df_temp # <<>>) =>
        \A i \in DOMAIN df_temp :
            i + HOLDING_DAYS <= Len(files[1]) =>
                /\ df_temp[i].Future_Low = SeqMin(Low_Price(BarsAfter(files[1], i)))
                /\ df_temp[i].Future_High = SeqMax(High_Price(BarsAfter(files[1], i)))

---------------------------------------------------------------------------
(* The trades run_backtest records *)

\* the mode fires for the file on the screening date
ModeFires(file, screen_date) ==
    LET df_calc == calculate_indicators_core(load_stock_history(file, screen_date))
    IN /\ Len(df_calc) >= 2
       /\ check_mode_1(TailRows(df_calc, 20), df_calc)

\* the rows of the file after the screening date
RowsAfter(file, screen_date) ==
    LET After(r) == r.Date > screen_date
    IN SelectSeq(SortByDate(file.rows), After)

\* C19: when run_backtest has finished, every screening date and readable
\* file for which the mode fires and the file holds at least HOLDING_DAYS
\* bars after the date has a trade whose sell price is the close of the
\* HOLDING_DAYS-th bar after the date and whose return is
\* (sell / buy - 1) * 100.
C19_TradeRecordedWhenModeFires ==
    bs_pc = "done" =>
        \A s \in DOMAIN date_list : \A f \in DOMAIN all_files :
            (/\ all_files[f].readable
             /\ ModeFires(all_files[f], date_list[s])
             /\ is_trade_day(all_files[f].rows, date_list[s])
             /\ Len(RowsAfter(all_files[f], date_list[s])) >= HOLDING_DAYS_BS)
            => LET buy == CloseOn(all_files[f].rows, date_list[s])
                   sell == RowsAfter(all_files[f], date_list[s])[HOLDING_DAYS_BS].Close
               IN \E k \in DOMAIN all_results :
                      /\ all_results[k].Screen_Date = date_list[s]
                      /\ all_results[k].Code = f
                      /\ all_results[k].Sell_Price = Fmt2(Rat(sell, 1))
                      /\ all_results[k].Returns = Fmt2(Rat((sell - buy) * 100, buy))

---------------------------------------------------------------------------
(* The price breakout of select_stock_logic *)

\* the last close is above every earlier close of the last BREAKOUT_PERIOD
\* bars
NewHighClose(d) ==
    /\ Len(d) >= BREAKOUT_PERIOD
    /\ \A k \in (Len(d) - BREAKOUT_PERIOD + 1)..(Len(d) - 1) :
           Gt(d[Len(d)].Close, d[k].Close)

\* C20: for every stock a worker has finished and every test date with a
\* bar, check_c1_price_breakout holds on the indicator frame when the close
\* of the test date is above every earlier close of the 20-day period.
C20_BreakoutRecognised ==
    \A i \in DOMAIN mb_files : \A s \in DOMAIN test_dates :
        LET hist_data == get_data_up_to_date(SortByDate(mb_files[i].rows),
                                             test_dates[s])
        IN (/\ future_state[i] = "finished"
            /\ mb_files[i].readable
            /\ is_trade_day(hist_data, test_dates[s])
            /\ NewHighClose(hist_data))
           => check_c1_price_breakout(SortByDate(calculate_indicators(hist_data)))

---------------------------------------------------------------------------
(* The pattern of check_bottom_double_bullish on the latest bar *)

\* The latest bar T is in a 20-bar downtrend, the bar four rows earlier is
\* a bullish candle C1 of at least MIN_BULLISH_CHANGE on a volume of at
\* least MIN_VOL_MULTIPLIER times its 20-bar average, the close of T-1 is
\* at least 0.95 of C1's close, and T is a bullish candle on at least C1's
\* volume that closes above C1.
DoubleBullishAtLatest(rows) ==
    LET f == Indicators(SortByDate(rows))
        T == Len(f)
    IN /\ T > 20
       /\ f[T].Close >= MIN_CLOSE_PRICE /\ f[T].Close <= MAX_CLOSE_PRICE
       /\ Lt(f[T].Close, f[T].Close_20_Ago)
       /\ GeRat(f[T - 4].Change_C, MIN_BULLISH_CHANGE)
       /\ GeMeanTimes(f[T - 4].Volume, f[T - 4].Vol_Avg_20, 20, MIN_VOL_MULTIPLIER)
       /\ GeTimes(f[T - 1].Close, f[T - 4].Close, Rat(95, 100))
       /\ GeRat(f[T].Change_C, MIN_BULLISH_CHANGE)
       /\ Ge(f[T].Volume, f[T - 4].Volume)
       /\ Gt(f[T].Close, f[T - 4].Close)

\* C21: check_bottom_double_bullish returns a signal for the latest bar T
\* when the pattern holds with C1 = bar T-4 and the consolidation bar T-1.
C21_SignalOnPattern ==
    (scanner = "bottom_double_bullish" /\ scan_pc = "returned"
        /\ DoubleBullishAtLatest(scan_df))
        => scan_result # <<>>

---------------------------------------------------------------------------
(* stock_analyzer.V4.0.py: analyze_and_filter_stocks and save_results *)

\* the Strategy_Type strings of analyze_and_filter_stocks; each is followed
\* in the source by a remark in brackets that names no strategy
TYPE_C == "C_New_Strategy (...)"
TYPE_A == "A_Strong_Pullback (...)"
TYPE_B == "B_Low_Position_Start (...)"
TYPE_E == "E_Leader_Restart (...)"
TYPE_D == "D_Strong_Breakout (...)"

\* variant: the strategies tested in alphabetical order
strategy_type_alphabetical(met) ==
    IF "A" \in met THEN TYPE_A
    ELSE IF "B" \in met THEN TYPE_B
    ELSE IF "C" \in met THEN TYPE_C
    ELSE IF "D" \in met THEN TYPE_D
    ELSE IF "E" \in met THEN TYPE_E
    ELSE "None"

\* the if / elif chain over is_Strategy_C_NewStart, is_Strategy_A_Pullback,
\* is_Strategy_B_LowStart, is_Strategy_E_Restart, is_Strategy_D_Breakout;
\* met is the set of the strategies whose function returned True
strategy_type(met) ==
    IF "C" \in met THEN TYPE_C
    ELSE IF "A" \in met THEN TYPE_A
    ELSE IF "B" \in met THEN TYPE_B
    ELSE IF "E" \in met THEN TYPE_E
    ELSE IF "D" \in met THEN TYPE_D
    ELSE "None"

\* Series.str.contains(key) on a Strategy_Type: each string holds the name
\* of its own strategy and of no other
str_contains(type, key) ==
    \/ key = "C_New_Strategy" /\ type = TYPE_C
    \/ key = "A_Strong_Pullback" /\ type = TYPE_A
    \/ key = "B_Low_Position_Start" /\ type = TYPE_B
    \/ key = "E_Leader_Restart" /\ type = TYPE_E
    \/ key = "D_Strong_Breakout" /\ type = TYPE_D

\* the row result_row of a file that met a strategy
result_row(file, type) ==
    [code |-> file.code, Strategy_Type |-> type,
     TurnoverRate |-> file.TurnoverRate, RSI6 |-> file.RSI6,
     KDJ_J |-> file.KDJ_J]

\* One pass of the loop over all_files: a file that cannot be read, lacks a
\* column, has fewer than 61 rows or a null in its latest row is skipped;
\* otherwise the five strategies are evaluated and one row is appended when
\* strategy_type is not "None".
AnalyseFile ==
    /\ sa_pc = "loop"
    /\ sa_idx < Len(sa_files)
    /\ LET file == sa_files[sa_idx + 1]
           type == strategy_type(file.met)
       IN sa_results' = IF file.analysed /\ type # "None"
                        THEN Append(sa_results, result_row(file, type))
                        ELSE sa_results
    /\ sa_idx' = sa_idx + 1
    /\ UNCHANGED <<sa_files, sa_saved, sa_high, sa_max_high, sa_pc>>
    /\ UNCHANGED notSA

\* np.select of the scores: C, E, D, A tested in this order, default B;
\* the score is the quotient num / den of integers, den > 0
Final_Score(row) ==
    IF str_contains(row.Strategy_Type, "C_New_Strategy")
    THEN Rat(row.RSI6 * row.TurnoverRate * 16, 10)
    ELSE IF str_contains(row.Strategy_Type, "E_Leader_Restart")
    THEN Rat(row.RSI6 * row.TurnoverRate * 17, 10)
    ELSE IF str_contains(row.Strategy_Type, "D_Strong_Breakout")
    THEN Rat(row.RSI6 * row.TurnoverRate * 11, 10)
    ELSE IF str_contains(row.Strategy_Type, "A_Strong_Pullback")
    THEN Rat(row.TurnoverRate * row.KDJ_J, row.RSI6 + 1)
    ELSE Rat(row.RSI6 * row.TurnoverRate, 1)

\* np.select of the ranks: C 0, A 1, B 2, E 3, D 4, default 5
Strategy_Rank(row) ==
    IF str_contains(row.Strategy_Type, "C_New_Strategy") THEN 0
    ELSE IF str_contains(row.Strategy_Type, "A_Strong_Pullback") THEN 1
    ELSE IF str_contains(row.Strategy_Type, "B_Low_Position_Start") THEN 2
    ELSE IF str_contains(row.Strategy_Type, "E_Leader_Restart") THEN 3
    ELSE IF str_contains(row.Strategy_Type, "D_Strong_Breakout") THEN 4
    ELSE 5

\* a > b for two scores with positive denominators
ScoreGt(a, b) == a.num * b.den > b.num * a.den

\* df.sort_values(by=['Strategy_Rank', 'Final_Score'],
\*                ascending=[True, False]): a stable sort
sort_values(df) ==
    LET before(j, k) ==
            \/ df[j].Strategy_Rank < df[k].Strategy_Rank
            \/ /\ df[j].Strategy_Rank = df[k].Strategy_Rank
               /\ ScoreGt(df[j].Final_Score, df[k].Final_Score)
            \/ /\ df[j].Strategy_Rank = df[k].Strategy_Rank
               /\ ~ScoreGt(df[j].Final_Score, df[k].Final_Score)
               /\ ~ScoreGt(df[k].Final_Score, df[j].Final_Score)
               /\ j <= k
        rank == [k \in DOMAIN df |->
                    Cardinality({j \in DOMAIN df : before(j, k)})]
    IN [p \in DOMAIN df |-> df[CHOOSE k \in DOMAIN df : rank[k] = p]]

\* save_results: the columns Final_Score and Strategy_Rank, then the sort
save_results(df) ==
    sort_values([k \in DOMAIN df |->
        [code |-> df[k].code, Strategy_Type |-> df[k].Strategy_Type,
         TurnoverRate |-> df[k].TurnoverRate, RSI6 |-> df[k].RSI6,
         KDJ_J |-> df[k].KDJ_J,
         Final_Score |-> Final_Score(df[k]),
         Strategy_Rank |-> Strategy_Rank(df[k])]])

\* the end of the loop with a non-empty results_df: save_results is called
SaveResults ==
    /\ sa_pc = "loop"
    /\ sa_idx = Len(sa_files)
    /\ sa_results # <<>>
    /\ sa_saved' = <<save_results(sa_results)>>
    /\ sa_pc' = "saved"
    /\ UNCHANGED <<sa_files, sa_idx, sa_results, sa_high, sa_max_high>>
    /\ UNCHANGED notSA

\* the end of the loop with an empty results_df: nothing is saved
NoResults ==
    /\ sa_pc = "loop"
    /\ sa_idx = Len(sa_files)
    /\ sa_results = <<>>
    /\ sa_pc' = "analysed"
    /\ UNCHANGED <<sa_files, sa_idx, sa_results, sa_saved, sa_high, sa_max_high>>
    /\ UNCHANGED notSA

NextStockAnalyzer == AnalyseFile \/ SaveResults \/ NoResults

\* the latest TurnoverRate, RSI6 and J of a stock
LatestLow == [TurnoverRate |-> 5, RSI6 |-> 60, KDJ_J |-> 80]
LatestHigh == [TurnoverRate |-> 8, RSI6 |-> 70, KDJ_J |-> 90]

Strategies == {"A", "B", "C", "D", "E"}

\* what the loop can find for one stock file: skipped, or analysed with at
\* most two strategies met
StockSpace ==
    {[analysed |-> an, met |-> m, TurnoverRate |-> l.TurnoverRate,
      RSI6 |-> l.RSI6, KDJ_J |-> l.KDJ_J] :
        an \in BOOLEAN, m \in {s \in SUBSET Strategies : Cardinality(s) <= 2},
        l \in {LatestLow, LatestHigh}}

MaxStocks == 2

\* the files of stock_data are named by the six-digit code of their stock
\* (update.py writes them so): the codes of all_files are distinct
InitStockAnalyzer ==
    /\ \E n \in 1..MaxStocks : \E fs \in [1..n -> StockSpace] :
        sa_files = [k \in 1..n |->
            [code |-> k, analysed |-> fs[k].analysed, met |-> fs[k].met,
             TurnoverRate |-> fs[k].TurnoverRate, RSI6 |-> fs[k].RSI6,
             KDJ_J |-> fs[k].KDJ_J]]
    /\ sa_idx = 0
    /\ sa_results = <<>>
    /\ sa_saved = <<>>
    /\ sa_high = <<>>
    /\ sa_max_high = <<>>
    /\ sa_pc = "loop"
    /\ OnlySA

SpecStockAnalyzer == InitStockAnalyzer /\ [][NextStockAnalyzer]_vars

\* the priority order of the strategies and the first of them met
PriorityOrder == <<"C", "A", "B", "E", "D">>
TypeOf == [s \in Strategies |->
             CASE s = "C" -> TYPE_C [] s = "A" -> TYPE_A [] s = "B" -> TYPE_B
               [] s = "E" -> TYPE_E [] s = "D" -> TYPE_D]
FirstMet(met) ==
    LET p == CHOOSE i \in 1..5 :
                 /\ PriorityOrder[i] \in met
                 /\ \A j \in 1..(i - 1) : PriorityOrder[j] \notin met
    IN PriorityOrder[p]
PriorityRank(type) == CHOOSE i \in 0..4 : TypeOf[PriorityOrder[i + 1]] = type

\* the rows of results that report the file at position k
ReportsOf(k) == {r \in DOMAIN sa_results : sa_results[r].code = sa_files[k].code}

\* C22: every analysed stock is reported at most once, under the first
\* strategy it meets in the order C > A > B > E > D and not at all when it
\* meets none; save_results ranks the rows 0..4 in that order and writes
\* them by rank ascending, then by Final_Score descending.
C22_PriorityAndOrder ==
    /\ \A k \in 1..sa_idx :
          /\ Cardinality(ReportsOf(k)) <= 1
          /\ (sa_files[k].analysed /\ sa_files[k].met # {})
                => \E r \in ReportsOf(k) :
                      sa_results[r].Strategy_Type = TypeOf[FirstMet(sa_files[k].met)]
          /\ (sa_files[k].met = {} \/ ~sa_files[k].analysed) => ReportsOf(k) = {}
    /\ \A k \in (sa_idx + 1)..Len(sa_files) : sa_pc = "loop" => ReportsOf(k) = {}
    /\ sa_pc = "saved" =>
          LET out == sa_saved[1]
          IN /\ Len(out) = Len(sa_results)
             /\ \A r \in DOMAIN sa_results :
                   Cardinality({p \in DOMAIN out : out[p].code = sa_results[r].code
                        /\ out[p].Strategy_Type = sa_results[r].Strategy_Type}) = 1
             /\ \A p \in DOMAIN out :
                   out[p].Strategy_Rank = PriorityRank(out[p].Strategy_Type)
             /\ \A p \in 1..(Len(out) - 1) :
                   \/ out[p].Strategy_Rank < out[p + 1].Strategy_Rank
                   \/ /\ out[p].Strategy_Rank = out[p + 1].Strategy_Rank
                      /\ ~ScoreGt(out[p + 1].Final_Score, out[p].Final_Score)

\* two stocks, each meeting two strategies, were saved in an order that
\* differs from the order of the files
C22_Witness ==
    /\ sa_pc = "saved"
    /\ Len(sa_saved[1]) = 2
    /\ \A k \in 1..2 : Cardinality(sa_files[k].met) = 2
    /\ sa_saved[1][1].code = 2
    /\ sa_saved[1][1].Strategy_Rank < sa_saved[1][2].Strategy_Rank

---------------------------------------------------------------------------
(* stock_analyzer.V4.0.py: the column Max_High_Prev_20 *)

\* df['High'].rolling(window=21, min_periods=1).max().shift(1): the rolling
\* maximum at row j covers the rows j-20..j that exist, and shift(1) puts
\* the value of row i-1 on row i, NaN on the first row
Max_High_Prev_20(High) ==
    [i \in DOMAIN High |->
        IF i = 1 THEN NaN
        ELSE LET j == i - 1
                 first == IF j - 20 < 1 THEN 1 ELSE j - 20
             IN SetMax({High[k] : k \in first..j})]

\* calculate_all_indicators on a frame with the column High
CallCalculateAllIndicators ==
    /\ sa_pc = "call"
    /\ sa_max_high' = <<Max_High_Prev_20(sa_high)>>
    /\ sa_pc' = "returned"
    /\ UNCHANGED <<sa_files, sa_idx, sa_results, sa_saved, sa_high>>
    /\ UNCHANGED notSA

MaxHighs == 23

\* High columns of up to MaxHighs bars: 10 on every bar but at most two,
\* which are higher
InitMaxHigh ==
    /\ \E n \in 1..MaxHighs : \E p \in 0..n, q \in 0..n :
        sa_high = [k \in 1..n |-> IF k = p THEN 12 ELSE IF k = q THEN 11 ELSE 10]
    /\ sa_max_high = <<>>
    /\ sa_pc = "call"
    /\ sa_files = <<>>
    /\ sa_idx = 0
    /\ sa_results = <<>>
    /\ sa_saved = <<>>
    /\ OnlySA

SpecMaxHigh == InitMaxHigh /\ [][CallCalculateAllIndicators]_vars

\* C23: at every bar i with 20 bars before it, Max_High_Prev_20 is the
\* maximum High of the 20 bars i-20..i-1.
C23_MaxOfTwentyPrevious ==
    sa_pc = "returned" =>
        \A i \in DOMAIN sa_high :
            i > 20 => sa_max_high[1][i] = SetMax({sa_high[k] : k \in (i - 20)..(i - 1)})

---------------------------------------------------------------------------
(* The range of the returns of calculate_dynamic_return *)

\* C24: every return that calculate_dynamic_return gives for a signal of
\* run_backtest_analysis and that is not NaN lies between STOP_LOSS_RATE
\* and TAKE_PROFIT_RATE.
C24_ReturnWithinBounds ==
    (script = "sltp" /\ df_temp # <<>>) =>
        \A i \in DOMAIN df_temp :
            (final_filter("sltp", files[1], i) /\ notna(df_temp[i].Return_5D))
                => /\ STOP_LOSS_RATE <= df_temp[i].Return_5D
                   /\ df_temp[i].Return_5D <= TAKE_PROFIT_RATE

---------------------------------------------------------------------------
(* The sell date calculate_return reports *)

\* the bars of data whose close gives the returned rate against the close
\* of the entry bar e
ExitBars(e) ==
    {j \in DOMAIN data :
        /\ data[j].Date > data[e].Date
        /\ ret_tuple[1].ret = Rat(data[j].Close - data[e].Close, data[e].Close)}

\* C25: the sell_date of every trade calculate_return returns is the date of
\* a bar of data after the entry bar, and the close of that bar is the exit
\* price of the returned rate.
C25_SellDateIsExitBar ==
    (cr_pc = "returned" /\ ret_tuple # <<>>) =>
        \E j \in ExitBars(EntryBar) : data[j].Date = ret_tuple[1].sell_date

---------------------------------------------------------------------------
(* update.py: the progress of main over the runs of a day.  The workflow   *)
(* starts main, and starts it again after an exit status of 99.  The pool  *)
(* of a run is taken as one step that leaves the set of the stocks of the  *)
(* batch whose future gave (False, 0) or raised; stocks are named by their *)
(* index in the filtered stock list, which is the same in every run.       *)

BATCH_SIZE == 15

\* start_index after the two files were read: 0 unless the last run was
\* today and a progress file exists
LoadedStartIndex ==
    IF last_run_date_file # <<today_str>> THEN 0
    ELSE IF progress_file # <<>> THEN progress_file[1]
    ELSE 0

\* the progress file after the load: removed when the last run was not today
ProgressAfterLoad ==
    IF last_run_date_file # <<today_str>> THEN <<>> ELSE progress_file

MaxRuns == 4

\* main from its start to the submission of the batch, or to its return
\* when start_index >= total_stocks
StartRun ==
    /\ Len(runs_today) < MaxRuns
    /\ LET s == LoadedStartIndex
           e == PyMin(s + BATCH_SIZE, total_stocks)
       IN /\ start_index' = s
          /\ END_INDEX' = e
          /\ IF s >= total_stocks
             THEN /\ progress_file' = <<>>
                  /\ last_run_date_file' = <<today_str>>
                  /\ exit_code' = <<0>>
                  /\ runs_today' = Append(runs_today,
                         [start |-> s, end |-> e, submitted |-> FALSE,
                          failed |-> {}, exit |-> 0])
                  /\ job_pc' = "exited"
             ELSE /\ progress_file' = ProgressAfterLoad
                  /\ exit_code' = <<>>
                  /\ job_pc' = "pool"
                  /\ UNCHANGED <<last_run_date_file, runs_today>>
    /\ failed_stocks' = {}
    /\ UNCHANGED <<today_str, total_stocks>>
    /\ UNCHANGED notJob

\* the first start of main by the workflow
FirstInvocation == job_pc = "idle" /\ StartRun

\* the workflow starts main again after the exit status 99
WorkflowRestart == job_pc = "exited" /\ exit_code = <<99>> /\ StartRun

\* main is started again after it ended with the exit status 0
FurtherInvocation == job_pc = "exited" /\ exit_code = <<0>> /\ StartRun

\* current_batch = stock_list.iloc[start_index:END_INDEX]
BatchIndices == start_index..(END_INDEX - 1)

\* the stocks of a batch whose update may fail: the first and the last
FailureCandidates == {start_index, END_INDEX - 1}

\* the thread pool and the loop over as_completed: every future of the
\* batch is counted in success_count or in fail_count
RunPool ==
    /\ job_pc = "pool"
    /\ \E failed \in SUBSET FailureCandidates : failed_stocks' = failed
    /\ job_pc' = "counted"
    /\ UNCHANGED <<progress_file, last_run_date_file, today_str, total_stocks,
                   start_index, END_INDEX, exit_code, runs_today>>
    /\ UNCHANGED notJob

\* variant: the progress is not moved when a stock of the batch failed
next_start_index_retry ==
    IF failed_stocks # {} THEN start_index ELSE END_INDEX

\* next_start_index = END_INDEX
next_start_index == END_INDEX

\* the end of main: the date of the run is written, then the progress is
\* saved with exit(99), or removed with exit(0)
FinishRun ==
    /\ job_pc = "counted"
    /\ last_run_date_file' = <<today_str>>
    /\ IF next_start_index < total_stocks
       THEN /\ progress_file' = <<next_start_index>>
            /\ exit_code' = <<99>>
       ELSE /\ progress_file' = <<>>
            /\ exit_code' = <<0>>
    /\ runs_today' = Append(runs_today,
           [start |-> start_index, end |-> END_INDEX, submitted |-> TRUE,
            failed |-> failed_stocks, exit |-> exit_code'[1]])
    /\ job_pc' = "exited"
    /\ UNCHANGED <<today_str, total_stocks, start_index, END_INDEX, failed_stocks>>
    /\ UNCHANGED notJob

MaxJobDay == 2

\* midnight passes between two runs
NewDay ==
    /\ job_pc = "exited"
    /\ today_str < MaxJobDay
    /\ today_str' = today_str + 1
    /\ runs_today' = <<>>
    /\ UNCHANGED <<progress_file, last_run_date_file, total_stocks, start_index,
                   END_INDEX, failed_stocks, exit_code, job_pc>>
    /\ UNCHANGED notJob

NextJob ==
    \/ FirstInvocation
    \/ WorkflowRestart
    \/ FurtherInvocation
    \/ RunPool
    \/ FinishRun
    \/ NewDay

MaxTotalStocks == 31

\* before the first run: neither file exists
InitJob ==
    /\ OnlyJob
    /\ progress_file = <<>>
    /\ last_run_date_file = <<>>
    /\ today_str = 1
    /\ total_stocks \in 1..MaxTotalStocks
    /\ start_index = 0
    /\ END_INDEX = 0
    /\ failed_stocks = {}
    /\ exit_code = <<>>
    /\ runs_today = <<>>
    /\ job_pc = "idle"

SpecJob == InitJob /\ [][NextJob]_vars

\* the runs of one day under a workflow that starts main again after every
\* exit status 99 and not after 0; a run that was started goes on to its
\* exit, since every task of the pool ends after at most MAX_RETRIES
\* attempts
NextWorkflow ==
    \/ FirstInvocation
    \/ WorkflowRestart
    \/ RunPool
    \/ FinishRun

SpecWorkflow == InitJob /\ [][NextWorkflow]_vars /\ WF_vars(NextWorkflow)

\* the runs that had index i in their batch
RunsOf(i) ==
    {k \in DOMAIN runs_today :
        runs_today[k].submitted /\ runs_today[k].start <= i /\ i < runs_today[k].end}

\* the batches of the runs so far are [0,15), [15,30), ... and every run
\* before the last exited with 99; a run that exited with 99 left the next
\* start index in the progress file
C26_ConsecutiveBatches ==
    /\ \A k \in DOMAIN runs_today :
          /\ runs_today[k].submitted
          /\ runs_today[k].start = BATCH_SIZE * (k - 1)
          /\ runs_today[k].end = PyMin(BATCH_SIZE * k, total_stocks)
          /\ k < Len(runs_today) => runs_today[k].exit = 99
          /\ runs_today[k].exit = 99 => runs_today[k].end < total_stocks
    /\ (job_pc = "exited" /\ exit_code = <<99>> /\ runs_today # <<>>)
          => progress_file = <<runs_today[Len(runs_today)].end>>
    /\ \A i \in 0..(total_stocks - 1) : Cardinality(RunsOf(i)) <= 1

\* the last run exited with 0, the progress file is gone and every index
\* was in exactly one batch
C26_Completed ==
    /\ job_pc = "exited"
    /\ exit_code = <<0>>
    /\ progress_file = <<>>
    /\ \A i \in 0..(total_stocks - 1) : Cardinality(RunsOf(i)) = 1

\* C26: with the same list of N stocks and a workflow that starts main again
\* on the same day after every exit status 99, the runs take the batches
\* [0,15), [15,30), ... one after the other, every run but the last exits
\* with 99 and the next start index saved, and in the end a run exits with 0
\* and the progress file removed after every index was in exactly one batch.
C26_BatchesCoverListOnce == []C26_ConsecutiveBatches /\ <>[]C26_Completed

\* a list of more than two batches was completed
C26_Witness ==
    /\ C26_Completed
    /\ Len(runs_today) = 3
    /\ runs_today[3].start = 2 * BATCH_SIZE

\* C27: once a run has ended the day's job with the exit status 0, a
\* further start of main on the same day submits no task to the pool: it
\* finds start_index >= total_stocks and returns.
C27_NoTaskAfterCompletion ==
    \A z \in DOMAIN runs_today :
        runs_today[z].exit = 0 =>
            /\ \A k \in (z + 1)..Len(runs_today) : ~runs_today[k].submitted
            /\ z = Len(runs_today) => job_pc \notin {"pool", "counted"}

\* C28: when a run reports the day's job complete with the exit status 0,
\* every stock whose update failed in a run of the day was in the batch of
\* a later run of the day, up to the run that reports completion.
C28_FailedStockRetried ==
    \A z \in DOMAIN runs_today :
        runs_today[z].exit = 0 =>
            \A k \in 1..z : \A i \in runs_today[k].failed :
                \E m \in (k + 1)..z : m \in RunsOf(i)

=============================================================================
